---- MODULE Spec2Model ----
(***************************************************************************)
(* ICPC coach agent: the streaming agentic loop (src/src/agent.ts,         *)
(* streamAgent and streamEventsWithRetry), the gym resolver, the tool      *)
(* dispatcher, the history trimming and the chat handler of the same file, *)
(* and the Codeforces client's process-wide rate gate (src/src/types.ts,   *)
(* rateLimit and cfCall).                                                  *)
(*                                                                         *)
(* Spec        one request driven through streamAgent                      *)
(* FairSpec    the same, with the progress the scheduler guarantees        *)
(* SpecLossy   the same, with rate limits that interrupt a stream          *)
(* SpecGate    several callers of cfCall sharing the rate gate             *)
(* SpecGym     one call of getGymSimulations                               *)
(* SpecGymTool the same, up to the tool_result the agent loop writes       *)
(* SpecPaging  the same, on histories that reach the last page             *)
(* SpecNoLimit the same, with a limit that is not positive                 *)
(* SpecTrim    trimHistory on conversations of every arrangement of roles  *)
(* SpecChat    one POST /api/chat, from the handler to the end             *)
(* SpecTool    one call of executeTool                                     *)
(***************************************************************************)
EXTENDS Integers, Sequences, FiniteSets, TLC

\* ------------------------------------------------------------------ bounds

\* Stream fragments consumed during one request, over all turns and attempts.
MaxFrags == 5
\* Fragments lost during one request to attempts that fail with a rate limit
\* after having yielded them: at 0 a rate limit is reported when the stream
\* is opened, before its first fragment (a failure of any other kind comes
\* after any number of fragments).
MaxFragsLost == 0
\* Fragments an attempt may have yielded when it fails with a rate limit, in
\* the runs where a rate limit can interrupt a stream.
MaxFragsLate == 2
\* Granularity of the backoff timer, in seconds.
TickSeconds == 15

\* Callers of cfCall that run concurrently (HTTP requests in flight).
NumCallers == 3
\* Calls the first caller makes, one after another.
MaxCalls == 3
\* Granularity of the clock, in ms, and the time at which it stops.
TickMs == 250
MaxNow == 2000
\* Date.now() when the process makes its first call: any time at which the
\* initial lastRequestTime = 0 is at least one interval old.
StartMs == 1000

\* Records of a page of user.status and pages scanned at most: 100 and 20 in
\* the program, scaled down so that full pages and the page limit are reached.
pageSize == 3
maxPages == 2
\* Length of the submission history of the handle.
MaxHistory == 4
\* Length of the long histories that run the paging loop to its last page.
MaxPagingHistory == 7

\* Messages of a conversation handed to trimHistory.
MaxMessages == 11
\* Items of a list returned by the data client to a tool.
MaxItems == 301

\* ------------------------------------------------------- program constants

\* if (elapsed < 500) ... setTimeout(r, 500 - elapsed)
GateInterval == 500

\* streamEventsWithRetry(params, maxRetries = 3)
maxRetries == 3
\* Math.min(60, 15 * (attempt + 1))
BackoffBase == 15
BackoffCap == 60
\* e?.status === 429
RateLimitStatus == 429

\* const isGym = (s.contestId ?? 0) > 100000
GymBoundary == 100000
\* if (sessions.size >= limit * 3) break
BankFactor == 3
\* const CAP = 3000
CAP == 3000

\* trimSubmissions(..., 200), trimContestList(contests, max = 300),
\* trimRatedList(users, max = 100), problems.slice(0, 300)
SubmissionsCap == 200
ContestListCap == 300
RatedListCap == 100
ProblemsCap == 300

\* const MAX_HISTORY_TURNS = 4
MAX_HISTORY_TURNS == 4

\* ------------------------------------------------------------------ values

\* The cases of executeTool's switch.
RegisteredTools ==
  { "get_user_info", "get_user_rating", "get_user_submissions", "get_contest_list",
    "get_contest_standings", "get_contest_status", "get_contest_rating_changes",
    "get_problems", "get_recent_actions", "get_rated_list", "get_gym_simulations" }

\* Tool names the model asks for in a request: one of the registry, one that
\* is not.
ToolNames == {"get_user_rating", "get_weather"}

\* Names executeTool is called with: every case of the switch, and two names
\* that are not among them.
CalledNames == RegisteredTools \cup {"get_weather", "get_gym_recommendations"}

\* stop_reason values of a message_delta event.
StopReasons == {"tool_use", "end_turn"}
NoStopReason == "null"

\* Text of a text_delta, as a sequence of words.
TextChunks == {<<"hello">>}

\* partial_json pieces of input_json_delta events.  Their concatenation is
\* valid JSON exactly when it is PieceHead followed by PieceTail.
PieceHead == "{'handle':"
PieceTail == "'tourist'}"
JsonPieces == {PieceHead, PieceTail}

\* Tool inputs: objects as sets of <<key, value>> pairs.
EmptyObject == {}
HandleObject == {<<"handle", "tourist">>}

\* Errors a stream attempt can fail with: {status, message}; status 0 stands
\* for an error that carries no status.
NoError == [status |-> -1, message |-> <<>>]
StreamErrors ==
  { [status |-> 429, message |-> <<"too", "many", "requests">>],
    [status |-> 0, message |-> <<"rate_limit", "exceeded">>],
    [status |-> 500, message |-> <<"internal", "server", "error">>] }

Includes(message, word) == \E i \in DOMAIN message : message[i] = word

Last(s) == s[Len(s)]

Min(a, b) == IF a < b THEN a ELSE b

\* ------------------------------------------------------------------- state

VARIABLES
  pc,                \* position of streamAgent
  events,            \* SSE events written to res, in order
  anthropicMessages, \* context sent to the model
  toolUseBlocks,     \* per turn: tool calls filed so far
  currentToolUse,    \* per turn: <<>> (null) or <<the open tool call>>
  inputJsonBuffer,   \* per turn: partial_json pieces accumulated
  stopReason,        \* per turn
  lastStream,        \* per turn: 0 (null) or the stream of the last event
  attempt,           \* streamEventsWithRetry's loop counter
  toolResults,       \* results collected while executing a turn's tools
  toolIdx,           \* position of the for-of over toolUseBlocks
  waitSeconds,       \* duration of the backoff in progress
  elapsed,           \* seconds slept in the backoff in progress
  streamId,          \* streams opened so far (identity of the open one)
  snapshot,          \* content blocks accumulated by the open stream
  nextId,            \* ids the provider has handed out
  fragsUsed,         \* fragments consumed in this request
  fragsThis,         \* fragments yielded by the open stream
  fragsLost,         \* fragments yielded by attempts that were retried
  turn,              \* turns started
  opens,             \* history: streams opened in this turn
  lastErr,           \* history: what the current attempt failed with
  aborted,           \* history: the catch block of streamAgent ran
  consumed,          \* history: text and tool-call-open fragments, in order
  filed,             \* history: every tool call filed at a block close
  executed,          \* history: every executeTool call, in order
  turnLog,           \* history: how each completed turn ended
  retryLog,          \* history: every backoff that was slept
  now,               \* rate gate: Date.now(), in ms
  lastRequestTime,   \* rate gate: the module-level timestamp
  gpc,               \* rate gate: where each caller of cfCall is
  wakeAt,            \* rate gate: when each sleeping caller's timer is due
  calls,             \* rate gate: calls each caller has completed
  fetches,           \* rate gate, history: every fetch issued, in order
  behind,            \* rate gate, history: a caller found another one waiting
  history,           \* resolver, input: the submissions user.status holds
  limit,             \* resolver, input: the limit argument
  from,              \* resolver: offset of the next page
  page,              \* resolver: the loop counter
  sessions,          \* resolver: the sessions Map, in insertion order
  top,               \* resolver: the sessions selected
  gymMap,            \* resolver: catalog entries of the selected contests
  simIdx,            \* resolver: position of the for-of over top
  standingsCache,    \* resolver: StandingsEntry by session key
  gyms,              \* resolver: the list returned
  gympc,             \* resolver: the await getGymSimulations is at
  cfCalls,           \* resolver, history: data-client calls made, in order
  gymListSeen,       \* resolver, history: what contest.list returned
  messages,          \* handler: req.body.messages
  msgsOk,            \* handler: messages is there and is an array
  trimmed,           \* what trimHistory(messages) returned
  chatpc,            \* handler of POST /api/chat: where it is
  resEnded,          \* handler: the response was ended
  execName,          \* executeTool: name
  execData,          \* executeTool: what the data client has for the call
  execpc,            \* executeTool: "call", "resolved", "rejected"
  execResult,        \* executeTool: the value or the error it settled with
  execCalls          \* executeTool, history: data-client methods called

agentVars ==
  << pc, events, anthropicMessages, toolUseBlocks, currentToolUse,
     inputJsonBuffer, stopReason, lastStream, attempt, toolResults, toolIdx,
     waitSeconds, elapsed, streamId, snapshot, nextId, fragsUsed, fragsThis,
     fragsLost, turn, opens, lastErr, aborted, consumed, filed, executed, turnLog,
     retryLog >>

gateVars == << now, lastRequestTime, gpc, wakeAt, calls, fetches, behind >>

\* What an action of the agent loop leaves alone, and what one of the gate does.
gymVars ==
  << history, limit, from, page, sessions, top, gymMap, simIdx, standingsCache,
     gyms, gympc, cfCalls, gymListSeen >>

chatVars == << messages, msgsOk, trimmed, chatpc, resEnded >>

execVars == << execName, execData, execpc, execResult, execCalls >>

nonAgentVars == << gateVars, gymVars, chatVars, execVars >>
nonGateVars == << agentVars, gymVars, chatVars, execVars >>
nonGymVars == << agentVars, gateVars, chatVars, execVars >>
nonExecVars == << agentVars, gateVars, gymVars, chatVars >>

vars == << agentVars, gateVars, gymVars, chatVars, execVars >>

\* --------------------------------------------------------------- SSE events

Ev(type, name, val, msg) == [type |-> type, name |-> name, val |-> val, msg |-> msg]

EvText(content) == Ev("text", "", 0, content)
EvToolCall(name) == Ev("tool_call", name, 0, <<>>)
EvToolResult(name, success, msg) == Ev("tool_result", name, IF success THEN 1 ELSE 0, msg)
EvRetrying(w) == Ev("retrying", "", w, <<>>)
EvDone == Ev("done", "", 0, <<>>)
EvError(msg) == Ev("error", "", 0, msg)

writeSSE(log, event) == Append(log, event)

\* ------------------------------------------------------------ pure helpers

\* Variant: every failure is taken for a rate limit.
is429_Always(e) == e.status >= 0

\* const is429 = e?.status === 429 || e?.message?.includes('rate_limit')
is429(e) == e.status = RateLimitStatus \/ Includes(e.message, "rate_limit")

\* Variant: the bound on attempts is off by one.
ShouldRetry_OneMore(e, att) == is429(e) /\ att <= maxRetries

\* is429 && attempt < maxRetries
ShouldRetry(e, att) == is429(e) /\ att < maxRetries

\* Variant: the backoff is computed from the attempt index itself.
WaitSeconds_FromZero(att) == Min(BackoffCap, BackoffBase * att)

\* Math.min(60, 15 * (attempt + 1))
WaitSeconds(att) == Min(BackoffCap, BackoffBase * (att + 1))

\* JSON.parse on the concatenated pieces: a value, or a SyntaxError.
JsonParse(buf) ==
  IF buf = <<PieceHead, PieceTail>>
  THEN [ok |-> TRUE, value |-> HandleObject]
  ELSE [ok |-> FALSE, value |-> EmptyObject]

\* Variant: a buffer that does not parse keeps what its first piece announced.
ParseToolInput_KeepsPartial(buf) ==
  IF buf = <<>> THEN EmptyObject
  ELSE IF buf[1] = PieceHead THEN HandleObject ELSE EmptyObject

\* try { input = inputJsonBuffer ? JSON.parse(inputJsonBuffer) : {} } catch { input = {} }
ParseToolInput(buf) ==
  IF buf = <<>> THEN EmptyObject
  ELSE IF JsonParse(buf).ok THEN JsonParse(buf).value ELSE EmptyObject

\* Variants: the stop reason is not looked at; tools are never run.
ShouldRunTools_AnyBlocks(reason, blocks) == Len(blocks) > 0
ShouldRunTools_Never(reason, blocks) == reason = "tool_calls" /\ Len(blocks) > 0

\* stopReason === 'tool_use' && toolUseBlocks.length > 0
ShouldRunTools(reason, blocks) == reason = "tool_use" /\ Len(blocks) > 0

\* Variant: the catch block reports the error and returns.
CatchEvents_NoDone(log, msg) == writeSSE(log, EvError(msg))

\* What the catch block of streamAgent writes: error, then done.
CatchEvents(log, msg) == writeSSE(writeSSE(log, EvError(msg)), EvDone)

\* Variant: text is held back instead of being forwarded.
OnTextDelta_Buffered(log, content) == log

\* What a text_delta writes.
OnTextDelta(log, content) == writeSSE(log, EvText(content))

\* executeTool: a registered tool returns or throws (the data client failed);
\* any other name reaches the default branch and throws.
UnknownToolMessage(name) == <<"Unknown", "tool:", name>>
ApiErrorMessage == <<"Codeforces", "API", "error">>
ToolThrowMessages(name) ==
  IF name \in RegisteredTools THEN {ApiErrorMessage} ELSE {UnknownToolMessage(name)}
\* Variant: every name is served.
ToolCanReturn_Any(name) == TRUE

ToolCanReturn(name) == name \in RegisteredTools

\* The data-client method a case of the switch calls (the first one, for the
\* resolver).
ClientMethod(name) ==
  CASE name = "get_user_info" -> "user.info"
    [] name = "get_user_rating" -> "user.rating"
    [] name = "get_user_submissions" -> "user.status"
    [] name = "get_contest_list" -> "contest.list"
    [] name = "get_contest_standings" -> "contest.standings"
    [] name = "get_contest_status" -> "contest.status"
    [] name = "get_contest_rating_changes" -> "contest.ratingChanges"
    [] name = "get_problems" -> "problemset.problems"
    [] name = "get_recent_actions" -> "recentActions"
    [] name = "get_rated_list" -> "user.ratedList"
    [] name = "get_gym_simulations" -> "user.status"

\* The data-client methods one executeTool(name, input) calls before it
\* settles: none in the default branch.
ClientCalls(name) ==
  IF name \in RegisteredTools THEN << ClientMethod(name) >> ELSE << >>

\* ------------------------------------------------------------ initial state

\* The locals of streamAgent and the history variables, before the first turn.
InitLoop ==
  /\ events = <<>>
  /\ toolUseBlocks = <<>>
  /\ currentToolUse = <<>>
  /\ inputJsonBuffer = <<>>
  /\ stopReason = NoStopReason
  /\ lastStream = 0
  /\ attempt = 0
  /\ toolResults = <<>>
  /\ toolIdx = 0
  /\ waitSeconds = 0
  /\ elapsed = 0
  /\ streamId = 0
  /\ snapshot = <<>>
  /\ nextId = 1
  /\ fragsUsed = 0
  /\ fragsThis = 0
  /\ fragsLost = 0
  /\ turn = 1
  /\ opens = 0
  /\ lastErr = NoError
  /\ aborted = FALSE
  /\ consumed = <<>>
  /\ filed = <<>>
  /\ executed = <<>>
  /\ turnLog = <<>>
  /\ retryLog = <<>>

\* streamAgent after trimHistory(messages): the question being asked is the
\* only message of the context, and the while loop is about to start a turn.
InitAgent ==
  /\ pc = "open"
  /\ anthropicMessages = << [role |-> "user", kind |-> "text", content |-> <<>>] >>
  /\ InitLoop

\* ----------------------------------------------------- streamEventsWithRetry

turnVars == << toolUseBlocks, currentToolUse, inputJsonBuffer, stopReason >>
toolVars == << toolResults, toolIdx, executed >>
sleepVars == << waitSeconds, elapsed, retryLog >>
histVars == << consumed, filed, turnLog >>

\* const stream = client.messages.stream(params)
OpenStream ==
  /\ UNCHANGED nonAgentVars
  /\ pc = "open"
  /\ pc' = "streaming"
  /\ streamId' = streamId + 1
  /\ opens' = opens + 1
  /\ snapshot' = <<>>
  /\ fragsThis' = 0
  /\ lastErr' = NoError
  /\ UNCHANGED << events, anthropicMessages, turnVars, lastStream, attempt,
                  toolVars, sleepVars, nextId, fragsUsed, fragsLost, turn,
                  aborted, histVars >>

\* The catch block of streamAgent: error, done, return.
Abort(msg) ==
  /\ events' = CatchEvents(events, msg)
  /\ pc' = "returned"
  /\ aborted' = TRUE

\* The stream throws e: the catch block of streamEventsWithRetry.
StreamFail(e) ==
  /\ UNCHANGED nonAgentVars
  /\ pc = "streaming"
  /\ fragsLost + fragsThis <= MaxFragsLost \/ ~is429(e)
  /\ fragsLost' = IF ShouldRetry(e, attempt) THEN fragsLost + fragsThis ELSE fragsLost
  /\ lastErr' = e
  /\ IF ShouldRetry(e, attempt)
     THEN /\ waitSeconds' = WaitSeconds(attempt)
          /\ events' = writeSSE(events, EvRetrying(WaitSeconds(attempt)))
          /\ elapsed' = 0
          /\ pc' = "sleep"
          /\ UNCHANGED aborted
     ELSE /\ Abort(e.message)
          /\ UNCHANGED << waitSeconds, elapsed >>
  /\ UNCHANGED << anthropicMessages, turnVars, lastStream, attempt, toolVars,
                  retryLog, streamId, snapshot, nextId, fragsUsed, fragsThis,
                  turn, opens, histVars >>

\* The stream throws a rate limit after it has yielded events: the same
\* catch block.
StreamFailLate(e) ==
  /\ UNCHANGED nonAgentVars
  /\ pc = "streaming"
  /\ is429(e)
  /\ fragsThis >= 1
  /\ fragsLost + fragsThis <= MaxFragsLate
  /\ fragsLost' = IF ShouldRetry(e, attempt) THEN fragsLost + fragsThis ELSE fragsLost
  /\ lastErr' = e
  /\ IF ShouldRetry(e, attempt)
     THEN /\ waitSeconds' = WaitSeconds(attempt)
          /\ events' = writeSSE(events, EvRetrying(WaitSeconds(attempt)))
          /\ elapsed' = 0
          /\ pc' = "sleep"
          /\ UNCHANGED aborted
     ELSE /\ Abort(e.message)
          /\ UNCHANGED << waitSeconds, elapsed >>
  /\ UNCHANGED << anthropicMessages, turnVars, lastStream, attempt, toolVars,
                  retryLog, streamId, snapshot, nextId, fragsUsed, fragsThis,
                  turn, opens, histVars >>

\* await new Promise(r => setTimeout(r, waitSeconds * 1000)): time passes.
SleepTick ==
  /\ UNCHANGED nonAgentVars
  /\ pc = "sleep"
  /\ elapsed < waitSeconds
  /\ elapsed' = elapsed + TickSeconds
  /\ UNCHANGED << pc, events, anthropicMessages, turnVars, lastStream, attempt,
                  toolVars, waitSeconds, retryLog, streamId, snapshot, nextId,
                  fragsUsed, fragsThis, fragsLost, turn, opens, lastErr, aborted,
                  histVars >>

\* The timer fires; the for loop goes to its next attempt.
SleepDone ==
  /\ UNCHANGED nonAgentVars
  /\ pc = "sleep"
  /\ elapsed >= waitSeconds
  /\ attempt' = attempt + 1
  /\ pc' = "open"
  /\ retryLog' = Append(retryLog, [turn |-> turn, k |-> attempt + 1,
                                   wait |-> waitSeconds, slept |-> elapsed])
  /\ UNCHANGED << events, anthropicMessages, turnVars, lastStream, toolVars,
                  waitSeconds, elapsed, streamId, snapshot, nextId, fragsUsed,
                  fragsThis, fragsLost, turn, opens, lastErr, aborted, histVars >>

\* ------------------------------------------- the for-await body of streamAgent

\* Every yielded event: lastStream = stream.
Yielded ==
  /\ UNCHANGED nonAgentVars
  /\ pc = "streaming"
  /\ fragsUsed < MaxFrags
  /\ fragsUsed' = fragsUsed + 1
  /\ fragsThis' = fragsThis + 1
  /\ lastStream' = streamId
  /\ UNCHANGED << pc, anthropicMessages, attempt, fragsLost, toolVars, sleepVars,
                  streamId, turn, opens, lastErr, aborted, turnLog >>

\* content_block_start with a tool_use block.
ContentBlockStartToolUse(name) ==
  /\ Yielded
  /\ currentToolUse' = << [id |-> nextId, name |-> name, input |-> EmptyObject] >>
  /\ inputJsonBuffer' = <<>>
  /\ events' = writeSSE(events, EvToolCall(name))
  /\ nextId' = nextId + 1
  /\ snapshot' = Append(snapshot, [type |-> "tool_use", id |-> nextId, text |-> <<>>])
  /\ consumed' = Append(consumed, EvToolCall(name))
  /\ UNCHANGED << toolUseBlocks, stopReason, filed >>

\* content_block_delta with a text_delta.
TextDelta(content) ==
  /\ Yielded
  /\ events' = OnTextDelta(events, content)
  /\ snapshot' = Append(snapshot, [type |-> "text", id |-> 0, text |-> content])
  /\ consumed' = Append(consumed, EvText(content))
  /\ UNCHANGED << turnVars, nextId, filed >>

\* content_block_delta with an input_json_delta.
InputJsonDelta(piece) ==
  /\ Yielded
  /\ inputJsonBuffer' = Append(inputJsonBuffer, piece)
  /\ UNCHANGED << events, toolUseBlocks, currentToolUse, stopReason, snapshot,
                  nextId, consumed, filed >>

\* content_block_stop.
ContentBlockStop ==
  /\ Yielded
  /\ IF currentToolUse # <<>>
     THEN LET block == [currentToolUse[1] EXCEPT !.input = ParseToolInput(inputJsonBuffer)]
          IN /\ toolUseBlocks' = Append(toolUseBlocks, block)
             /\ filed' = Append(filed, [turn |-> turn, id |-> block.id,
                                        name |-> block.name, input |-> block.input,
                                        buf |-> inputJsonBuffer])
             /\ currentToolUse' = <<>>
             /\ inputJsonBuffer' = <<>>
     ELSE UNCHANGED << toolUseBlocks, filed, currentToolUse, inputJsonBuffer >>
  /\ UNCHANGED << events, stopReason, snapshot, nextId, consumed >>

\* message_delta: stopReason = event.delta.stop_reason ?? null
MessageDelta(reason) ==
  /\ Yielded
  /\ stopReason' = reason
  /\ UNCHANGED << events, toolUseBlocks, currentToolUse, inputJsonBuffer,
                  snapshot, nextId, consumed, filed >>

\* Any event the body ignores: message_start, message_stop, the start of a
\* text block.
OtherEvent ==
  /\ Yielded
  /\ UNCHANGED << events, turnVars, snapshot, nextId, consumed, filed >>

\* The stream ends; the generator returns.  The provider's stream rejects
\* when it ends without having produced a message, so a stream that ends
\* normally has yielded at least one event.
StreamEnd ==
  /\ UNCHANGED nonAgentVars
  /\ pc = "streaming"
  /\ fragsThis > 0
  /\ pc' = "final"
  /\ UNCHANGED << events, anthropicMessages, turnVars, lastStream, attempt,
                  toolVars, sleepVars, streamId, snapshot, nextId, fragsUsed,
                  fragsThis, fragsLost, turn, opens, lastErr, aborted, histVars >>

\* ------------------------------------------------------------ end of a turn

\* finalMessage(), the push of the assistant message and the test that
\* decides between executing tools and leaving the loop.
TurnEnd ==
  /\ UNCHANGED nonAgentVars
  /\ pc = "final"
  /\ IF lastStream = 0
     THEN /\ Abort(<<"Cannot", "read", "properties", "of", "null">>)
          /\ UNCHANGED << anthropicMessages, toolResults, toolIdx, turnLog >>
     ELSE /\ anthropicMessages' =
               Append(anthropicMessages,
                      [role |-> "assistant", kind |-> "blocks", content |-> snapshot])
          /\ turnLog' = Append(turnLog, [turn |-> turn, stop |-> stopReason,
                                         blocks |-> toolUseBlocks])
          /\ IF ShouldRunTools(stopReason, toolUseBlocks)
             THEN /\ pc' = "tools"
                  /\ toolResults' = <<>>
                  /\ toolIdx' = 1
                  /\ UNCHANGED << events, aborted >>
             ELSE /\ events' = writeSSE(events, EvDone)
                  /\ pc' = "returned"
                  /\ UNCHANGED << toolResults, toolIdx, aborted >>
  /\ UNCHANGED << turnVars, lastStream, attempt, executed, sleepVars, streamId,
                  snapshot, nextId, fragsUsed, fragsThis, fragsLost, turn, opens, lastErr,
                  consumed, filed >>

\* After a tool's result is recorded: the next tool of the turn, or the push
\* of the synthetic user message and the next iteration of the while loop.
AfterTool(results) ==
  IF toolIdx < Len(toolUseBlocks)
  THEN /\ toolIdx' = toolIdx + 1
       /\ toolResults' = results
       /\ UNCHANGED << pc, anthropicMessages, turnVars, lastStream, attempt,
                       turn, opens >>
  ELSE /\ anthropicMessages' =
            Append(anthropicMessages,
                   [role |-> "user", kind |-> "tool_results", content |-> results])
       /\ toolResults' = results
       /\ toolIdx' = 0
       /\ toolUseBlocks' = <<>>
       /\ currentToolUse' = <<>>
       /\ inputJsonBuffer' = <<>>
       /\ stopReason' = NoStopReason
       /\ lastStream' = 0
       /\ attempt' = 0
       /\ opens' = 0
       /\ turn' = turn + 1
       /\ pc' = "open"

\* executeTool resolves.
ExecuteToolReturn ==
  /\ UNCHANGED nonAgentVars
  /\ pc = "tools"
  /\ LET tool == toolUseBlocks[toolIdx]
     IN /\ ToolCanReturn(tool.name)
        /\ events' = writeSSE(events, EvToolResult(tool.name, TRUE, <<>>))
        /\ executed' = Append(executed, [turn |-> turn, id |-> tool.id,
                                         name |-> tool.name, input |-> tool.input,
                                         ok |-> TRUE, msg |-> <<>>,
                                         called |-> ClientCalls(tool.name),
                                         at |-> Len(events) + 1])
        /\ AfterTool(Append(toolResults, [tool_use_id |-> tool.id, is_error |-> FALSE,
                                          content |-> <<"result">>]))
  /\ UNCHANGED << sleepVars, streamId, snapshot, nextId, fragsUsed, fragsThis, fragsLost,
                  lastErr, aborted, histVars >>

\* Variant: a throwing tool is not caught around the call and reaches the
\* catch block of streamAgent.
ExecuteToolThrow_Propagates ==
  /\ UNCHANGED nonAgentVars
  /\ pc = "tools"
  /\ \E m \in ToolThrowMessages(toolUseBlocks[toolIdx].name) : Abort(m)
  /\ UNCHANGED << anthropicMessages, turnVars, lastStream, attempt, toolVars,
                  sleepVars, streamId, snapshot, nextId, fragsUsed, fragsThis, fragsLost,
                  turn, opens, lastErr, histVars >>

\* executeTool throws: the catch around it.
ExecuteToolThrow ==
  /\ UNCHANGED nonAgentVars
  /\ pc = "tools"
  /\ LET tool == toolUseBlocks[toolIdx]
     IN \E m \in ToolThrowMessages(tool.name) :
          /\ events' = writeSSE(events, EvToolResult(tool.name, FALSE, m))
          /\ executed' = Append(executed, [turn |-> turn, id |-> tool.id,
                                           name |-> tool.name, input |-> tool.input,
                                           ok |-> FALSE, msg |-> m,
                                           called |-> ClientCalls(tool.name),
                                           at |-> Len(events) + 1])
          /\ AfterTool(Append(toolResults, [tool_use_id |-> tool.id, is_error |-> TRUE,
                                            content |-> <<"Error:">> \o m]))
  /\ UNCHANGED << sleepVars, streamId, snapshot, nextId, fragsUsed, fragsThis, fragsLost,
                  lastErr, aborted, histVars >>

\* ------------------------------------------------ the rate gate of cfCall

Callers == 1 .. NumCallers

\* The calls a caller makes: the first caller is a resolver that makes its
\* calls one after another, each of the others is a tool that makes one call.
CallsOf(c) == IF c = 1 THEN MaxCalls ELSE 1

\* let lastRequestTime = 0, and nobody has called yet.
InitGate ==
  /\ now = StartMs
  /\ lastRequestTime = 0
  /\ gpc = [c \in Callers |-> "idle"]
  /\ wakeAt = [c \in Callers |-> 0]
  /\ calls = [c \in Callers |-> 0]
  /\ fetches = <<>>
  /\ behind = [c \in Callers |-> FALSE]

\* lastRequestTime = Date.now(), then cfCall builds the URL and calls fetch.
PassGate(c) ==
  /\ lastRequestTime' = now
  /\ fetches' = Append(fetches, [caller |-> c, at |-> now, behind |-> behind'[c]])
  /\ gpc' = [gpc EXCEPT ![c] = "fetching"]

\* A gate that lets every caller through at once.
rateLimit_NoWait(c) ==
  /\ UNCHANGED nonGateVars
  /\ gpc[c] = "idle"
  /\ calls[c] < CallsOf(c)
  /\ behind' = [behind EXCEPT ![c] = \E d \in Callers \ {c} : gpc[d] = "sleeping"]
  /\ PassGate(c)
  /\ UNCHANGED << now, wakeAt, calls >>

\* cfCall: await rateLimit(), up to its first suspension.
rateLimit(c) ==
  /\ UNCHANGED nonGateVars
  /\ gpc[c] = "idle"
  /\ calls[c] < CallsOf(c)
  /\ behind' = [behind EXCEPT ![c] = \E d \in Callers \ {c} : gpc[d] = "sleeping"]
  /\ LET elapsedMs == now - lastRequestTime
     IN IF elapsedMs < GateInterval
        THEN /\ wakeAt' = [wakeAt EXCEPT ![c] = now + (GateInterval - elapsedMs)]
             /\ gpc' = [gpc EXCEPT ![c] = "sleeping"]
             /\ UNCHANGED << lastRequestTime, fetches >>
        ELSE /\ PassGate(c)
             /\ UNCHANGED wakeAt
  /\ UNCHANGED << now, calls >>

\* The timer of rateLimit fires.
rateLimitWake(c) ==
  /\ UNCHANGED nonGateVars
  /\ gpc[c] = "sleeping"
  /\ now >= wakeAt[c]
  /\ UNCHANGED behind
  /\ PassGate(c)
  /\ UNCHANGED << now, wakeAt, calls >>

\* The response arrives (or the call throws): cfCall returns to its caller.
cfCallReturn(c) ==
  /\ UNCHANGED nonGateVars
  /\ gpc[c] = "fetching"
  /\ gpc' = [gpc EXCEPT ![c] = "idle"]
  /\ calls' = [calls EXCEPT ![c] = calls[c] + 1]
  /\ UNCHANGED << now, lastRequestTime, wakeAt, fetches, behind >>

\* Time passes.
ClockTick ==
  /\ UNCHANGED nonGateVars
  /\ now < MaxNow
  /\ now' = now + TickMs
  /\ UNCHANGED << lastRequestTime, gpc, wakeAt, calls, fetches, behind >>

\* ------------------------------------------------ getGymSimulations: values

\* An absent number (contestId?, startTimeSeconds?, difficulty?) and null.
Missing == -1
Null == "null"

\* The handle getGymSimulations is asked about.
RequestedHandle == "a"

\* Handles in the order of Array.prototype.sort() (UTF-16 code units).
HandleOrder == << "a", "b", "q", "z" >>
HandleRank(h) == CHOOSE i \in DOMAIN HandleOrder : HandleOrder[i] = h

Range(s) == { s[i] : i \in DOMAIN s }
MinOf(S) == CHOOSE x \in S : \A y \in S : x <= y

\* CFSubmission, with the fields getGymSimulations reads.
Submission(contestId, creation, type, start, teamName, members) ==
  [ contestId |-> contestId,
    creationTimeSeconds |-> creation,
    author |-> [ participantType |-> type, startTimeSeconds |-> start,
                 teamName |-> teamName, members |-> members ] ]

\* Records user.status can hold: virtual gym participations (two of one
\* session, of which the second carries no team; one of another contest that
\* started at the same second; one of the same contest at another time; one
\* whose party has no start time), and three records that are no simulation
\* (no contest id, a contest id on the boundary, upsolving in a gym).
Submissions ==
  { Submission(100001, 61, "VIRTUAL", 60, "Team", << "b", "a" >>),
    Submission(100001, 62, "VIRTUAL", 60, Null, << >>),
    Submission(100002, 63, "VIRTUAL", 60, "Team", << "b", "a" >>),
    Submission(100001, 121, "VIRTUAL", 120, "Team", << "b", "a" >>),
    Submission(100002, 180, "VIRTUAL", Missing, "Team", << "b", "a" >>),
    Submission(Missing, 181, "VIRTUAL", 180, "Other", << "z" >>),
    Submission(100000, 182, "VIRTUAL", 180, "Other", << "z" >>),
    Submission(100002, 122, "PRACTICE", 120, "Other", << "z" >>) }

\* What user.status holds for the handle, most recent first or not: a
\* submission has one id, so no record is listed twice.
Histories ==
  { h \in UNION { [1 .. n -> Submissions] : n \in 0 .. MaxHistory } :
      \A i, j \in DOMAIN h : h[i] = h[j] => i = j }

\* Long histories for the paging loop: three sessions' records, any of them
\* any number of times (a team submits many times in one session).
PagingSubmissions ==
  { Submission(100001, 61, "VIRTUAL", 60, "Team", << "b", "a" >>),
    Submission(100002, 63, "VIRTUAL", 60, "Team", << "b", "a" >>),
    Submission(100001, 121, "VIRTUAL", 120, "Team", << "b", "a" >>) }

PagingHistories ==
  UNION { [1 .. n -> PagingSubmissions] : n \in 0 .. MaxPagingHistory }

\* The limit argument: one session, or more than one.
Limits == { 1, 2 }

\* A limit argument that asks for no session: input.limit is not validated.
NonPositiveLimits == { 0, -1, -2 }

\* CFContest entries of contest.list?gym=true: the catalog is empty, or lists
\* one of the two gyms.
GymLists ==
  { << >>,
    << [ id |-> 100001, name |-> "Alpha Cup", difficulty |-> 3,
         durationSeconds |-> 18000 ] >> }

\* CFRanklistRow: party, rank, and the points of each problem result.
Row(start, members, rank, points) ==
  [ party |-> [ startTimeSeconds |-> start, members |-> members ],
    rank |-> rank,
    problemResults |-> points ]

StandingsProblems == << "A", "B", "C" >>

\* Responses of contest.standings for a session that started at T: no rows;
\* a better-ranked team that started at the same second; an earlier row of the
\* team itself from another start, then the row of this start; no row of this
\* start for the team, but rows of its members from other starts; only rows
\* of other teams.
Standings(sim) ==
  LET T == sim.startTimeSeconds
  IN { [ problems |-> StandingsProblems, rows |-> << >> ],
       [ problems |-> StandingsProblems,
         rows |-> << Row(T, << "z" >>, 120, << 1, 1, 1 >>),
                     Row(T, << "a", "q" >>, 177, << 1, 0, 1 >>) >> ],
       [ problems |-> StandingsProblems,
         rows |-> << Row(T + 1, << "a" >>, 5, << 1, 0, 0 >>),
                     Row(T, << "q", "b" >>, 9, << 0, 0, 1 >>) >> ],
       [ problems |-> StandingsProblems,
         rows |-> << Row(T, << "z" >>, 1, << 1, 1, 1 >>),
                     Row(T + 1, << "q", "b" >>, 7, << 1, 1, 0 >>),
                     Row(Missing, << "a" >>, 8, << 0, 0, 0 >>) >> ],
       [ problems |-> StandingsProblems,
         rows |-> << Row(T, << "z" >>, 3, << 1, 1, 1 >>) >> ] }

\* A call of the data client, as getGymSimulations makes it, and how it ended:
\* ok (it resolved) or not (it rejected).
CfCall(method, contestId, from_, count, flag, ok) ==
  [ method |-> method, contestId |-> contestId, from |-> from_, count |-> count,
    handles |-> << >>, flag |-> flag, ok |-> ok ]

\* ----------------------------------------- getGymSimulations: pure helpers

\* Variant: every gym record counts, whatever its participation type.
IsCandidate_AnyType(s) ==
  (IF s.contestId = Missing THEN 0 ELSE s.contestId) > GymBoundary

\* isGym && isVirtual
IsCandidate(s) ==
  /\ (IF s.contestId = Missing THEN 0 ELSE s.contestId) > GymBoundary
  /\ s.author.participantType = "VIRTUAL"

\* s.author?.startTimeSeconds ?? s.creationTimeSeconds
StartTimeOf(s) ==
  IF s.author.startTimeSeconds = Missing
  THEN s.creationTimeSeconds
  ELSE s.author.startTimeSeconds

\* `${s.contestId}_${startTime}`: two keys are equal iff both numbers are.
KeyOf(contestId, startTime) == << contestId, startTime >>

\* Variant: the handles stay in the order of the party.
SortHandles_Unsorted(hs) == hs

\* members.map(m => m.handle).sort()
RECURSIVE SortHandles(_)
SortHandles(hs) ==
  IF hs = << >> THEN << >>
  ELSE LET sorted == SortHandles(SubSeq(hs, 1, Len(hs) - 1))
           x == hs[Len(hs)]
           after == { i \in DOMAIN sorted : HandleRank(sorted[i]) > HandleRank(x) }
           p == IF after = {} THEN Len(sorted) + 1 ELSE MinOf(after)
       IN SubSeq(sorted, 1, p - 1) \o << x >> \o SubSeq(sorted, p, Len(sorted))

\* The SimSession a candidate record opens.
SessionOf(s) ==
  [ contestId |-> s.contestId,
    startTimeSeconds |-> StartTimeOf(s),
    teamName |-> s.author.teamName,
    members |-> SortHandles(s.author.members) ]

SessionKey(sim) == KeyOf(sim.contestId, sim.startTimeSeconds)

\* sessions.has(key)
HasKey(banked, key) == \E i \in DOMAIN banked : SessionKey(banked[i]) = key

\* Variant: a later record of the same key replaces the session.
BankSession_LastWins(banked, s) ==
  IF ~IsCandidate(s) THEN banked
  ELSE IF HasKey(banked, KeyOf(s.contestId, StartTimeOf(s)))
       THEN [i \in DOMAIN banked |->
               IF SessionKey(banked[i]) = KeyOf(s.contestId, StartTimeOf(s))
               THEN SessionOf(s) ELSE banked[i]]
       ELSE Append(banked, SessionOf(s))

\* The body of `for (const s of subs)`; the Map keeps insertion order.
BankSession(banked, s) ==
  IF ~IsCandidate(s) THEN banked
  ELSE IF HasKey(banked, KeyOf(s.contestId, StartTimeOf(s))) THEN banked
  ELSE Append(banked, SessionOf(s))

RECURSIVE ScanSubs(_, _)
ScanSubs(subs, banked) ==
  IF subs = << >> THEN banked
  ELSE ScanSubs(Tail(subs), BankSession(banked, Head(subs)))

\* user.status?from=..&count=..: the records from position from_ on.
Page(h, from_) == SubSeq(h, from_, Min(from_ + pageSize - 1, Len(h)))

\* Variant: the loop has no last page.
Continues_NoPageLimit(subs, banked, lim, pg) ==
  /\ subs # << >>
  /\ ~(Len(subs) < pageSize)
  /\ ~(Len(banked) >= lim * BankFactor)

\* The loop goes on to another page: none of the three breaks was taken and
\* page + 1 < maxPages.
Continues(subs, banked, lim, pg) ==
  /\ subs # << >>
  /\ ~(Len(subs) < pageSize)
  /\ ~(Len(banked) >= lim * BankFactor)
  /\ pg + 1 < maxPages

\* Variant: the function goes on to the catalog with no session.
ReturnsEmpty_Never(banked) == FALSE

\* if (!sessions.size) return { handle, gyms: [] }
ReturnsEmpty(banked) == Len(banked) = 0

\* [...sessions.values()].sort((a, b) => b.startTimeSeconds - a.startTimeSeconds):
\* the sort is stable.
RECURSIVE SortNewestFirst(_)
SortNewestFirst(ss) ==
  IF ss = << >> THEN << >>
  ELSE LET sorted == SortNewestFirst(SubSeq(ss, 1, Len(ss) - 1))
           x == ss[Len(ss)]
           older == { i \in DOMAIN sorted :
                        sorted[i].startTimeSeconds < x.startTimeSeconds }
           p == IF older = {} THEN Len(sorted) + 1 ELSE MinOf(older)
       IN SubSeq(sorted, 1, p - 1) \o << x >> \o SubSeq(sorted, p, Len(sorted))

\* Variant: the limit is not applied.
SliceFromStart_All(ss, end) == ss

\* Array.prototype.slice(0, end), for an integer end.
SliceFromStart(ss, end) ==
  LET k == IF end < 0 THEN Len(ss) + end ELSE Min(end, Len(ss))
  IN SubSeq(ss, 1, IF k < 0 THEN 0 ELSE k)

\* Variant: the sessions are taken in the order they were banked.
SelectTop_Unsorted(banked, lim) == SliceFromStart(banked, lim)

\* const top = sorted.slice(0, limit)
SelectTop(banked, lim) == SliceFromStart(SortNewestFirst(banked), lim)

\* The whole paging loop on a history, from a given page on.
RECURSIVE ScanAll(_, _, _, _, _)
ScanAll(h, lim, from_, pg, banked) ==
  LET subs == Page(h, from_)
      b == ScanSubs(subs, banked)
  IN IF Continues(subs, b, lim, pg)
     THEN ScanAll(h, lim, from_ + pageSize, pg + 1, b)
     ELSE b

\* Variant: the catalog is not consulted.
BuildGymMap_None(gymList, sel) == << >>

\* for (const g of gymList) if (topIds.has(g.id)) gymMap[g.id] = g
BuildGymMap(gymList, sel) ==
  LET topIds == { sel[i].contestId : i \in DOMAIN sel }
      ids == { gymList[i].id : i \in DOMAIN gymList } \cap topIds
  IN [ id \in ids |->
         gymList[CHOOSE i \in DOMAIN gymList :
                   /\ gymList[i].id = id
                   /\ \A j \in DOMAIN gymList : gymList[j].id = id => j <= i] ]

\* Variant: the join uses the members reported for the session, the requested
\* handle when the session has none.
byMember_Reported(r, sim) ==
  Range(r.party.members)
    \cap Range(IF Len(sim.members) # 0 THEN sim.members ELSE << RequestedHandle >>) # {}

\* r.party?.members?.some(m => sim.members.includes(m.handle))
byMember(r, sim) == Range(r.party.members) \cap Range(sim.members) # {}

\* Variants: the start time alone decides; there is no member-only fallback.
TeamRowIndex_StartOnly(rows, sim) ==
  LET same == { i \in DOMAIN rows :
                  rows[i].party.startTimeSeconds = sim.startTimeSeconds }
  IN IF same # {} THEN MinOf(same) ELSE 0

TeamRowIndex_NoFallback(rows, sim) ==
  LET both == { i \in DOMAIN rows :
                  /\ rows[i].party.startTimeSeconds = sim.startTimeSeconds
                  /\ byMember(rows[i], sim) }
  IN IF both # {} THEN MinOf(both) ELSE 0

\* rows.find(r => start matches && byMember(r)) ?? rows.find(byMember):
\* the position of teamRow, 0 when there is none.
TeamRowIndex(rows, sim) ==
  LET both == { i \in DOMAIN rows :
                  /\ rows[i].party.startTimeSeconds = sim.startTimeSeconds
                  /\ byMember(rows[i], sim) }
      any == { i \in DOMAIN rows : byMember(rows[i], sim) }
  IN IF both # {} THEN MinOf(both)
     ELSE IF any # {} THEN MinOf(any)
     ELSE 0

\* Variant: every problem result counts as solved.
StandingsEntryOf_AllSolved(data, i) ==
  LET rows == data.rows
      teamRow == rows[i]
  IN [ rank |-> teamRow.rank,
       total |-> IF Len(rows) < CAP THEN rows[Len(rows)].rank ELSE Missing,
       solved |-> Len(teamRow.problemResults),
       totalProblems |-> Len(data.problems) ]

\* The StandingsEntry built from teamRow.
StandingsEntryOf(data, i) ==
  LET rows == data.rows
      teamRow == rows[i]
  IN [ rank |-> teamRow.rank,
       total |-> IF Len(rows) < CAP THEN rows[Len(rows)].rank ELSE Missing,
       solved |-> Cardinality({ p \in DOMAIN teamRow.problemResults :
                                  teamRow.problemResults[p] > 0 }),
       totalProblems |-> Len(data.problems) ]

\* The body of the try block after the standings arrived.
CacheStandings(cache, sim, data) ==
  LET i == TeamRowIndex(data.rows, sim)
  IN IF i = 0 THEN cache
     ELSE [ k \in DOMAIN cache \cup { SessionKey(sim) } |->
              IF k = SessionKey(sim) THEN StandingsEntryOf(data, i) ELSE cache[k] ]

\* '★'.repeat(diff) + '☆'.repeat(5 - diff)
Stars(diff) == [ i \in 1 .. 5 |-> IF i <= diff THEN "filled" ELSE "empty" ]

\* Variant: a session without a standings entry reports "0/0" solved.
GymResultOf_SolvedAlways(sim, cache, gmap) ==
  LET st == SessionKey(sim) \in DOMAIN cache
      listed == sim.contestId \in DOMAIN gmap
  IN [ name |-> IF listed THEN gmap[sim.contestId].name
                ELSE "Gym #" \o ToString(sim.contestId),
       link |-> "https://codeforces.com/gym/" \o ToString(sim.contestId) \o "/standings",
       difficulty |-> IF listed /\ gmap[sim.contestId].difficulty \notin { Missing, 0 }
                      THEN Stars(gmap[sim.contestId].difficulty)
                      ELSE << >>,
       durationHours |-> IF listed /\ gmap[sim.contestId].durationSeconds \notin { Missing, 0 }
                         THEN (gmap[sim.contestId].durationSeconds + 1800) \div 3600
                         ELSE Missing,
       simulatedAt |-> sim.startTimeSeconds \div 60,
       teamName |-> sim.teamName,
       members |-> IF Len(sim.members) # 0 THEN sim.members ELSE << RequestedHandle >>,
       rank |-> IF st THEN ToString(cache[SessionKey(sim)].rank) ELSE Null,
       solved |-> IF st
                  THEN ToString(cache[SessionKey(sim)].solved) \o "/"
                       \o ToString(cache[SessionKey(sim)].totalProblems)
                  ELSE "0/0" ]

\* One element of gyms.
GymResultOf(sim, cache, gmap) ==
  LET st == SessionKey(sim) \in DOMAIN cache
      listed == sim.contestId \in DOMAIN gmap
  IN [ name |-> IF listed THEN gmap[sim.contestId].name
                ELSE "Gym #" \o ToString(sim.contestId),
       link |-> "https://codeforces.com/gym/" \o ToString(sim.contestId) \o "/standings",
       difficulty |-> IF listed /\ gmap[sim.contestId].difficulty \notin { Missing, 0 }
                      THEN Stars(gmap[sim.contestId].difficulty)
                      ELSE << >>,
       durationHours |-> IF listed /\ gmap[sim.contestId].durationSeconds \notin { Missing, 0 }
                         THEN (gmap[sim.contestId].durationSeconds + 1800) \div 3600
                         ELSE Missing,
       simulatedAt |-> sim.startTimeSeconds \div 60,
       teamName |-> sim.teamName,
       members |-> IF Len(sim.members) # 0 THEN sim.members ELSE << RequestedHandle >>,
       rank |-> IF st THEN ToString(cache[SessionKey(sim)].rank) ELSE Null,
       solved |-> IF st
                  THEN ToString(cache[SessionKey(sim)].solved) \o "/"
                       \o ToString(cache[SessionKey(sim)].totalProblems)
                  ELSE Null ]

\* gyms: top.map(sim => ...)
BuildGyms(sel, cache, gmap) ==
  [ i \in DOMAIN sel |-> GymResultOf(sel[i], cache, gmap) ]

\* ------------------------------------------------------- getGymSimulations

\* No resolve is running.
GymNotCalled ==
  /\ history = << >>
  /\ limit = 1
  /\ from = 1
  /\ page = 0
  /\ sessions = << >>
  /\ top = << >>
  /\ gymMap = << >>
  /\ simIdx = 0
  /\ standingsCache = << >>
  /\ gyms = << >>
  /\ gympc = "idle"
  /\ cfCalls = << >>
  /\ gymListSeen = << >>

\* getGymSimulations(handle, limit) up to its first await: user.status holds
\* some history for the handle.
InitGym ==
  /\ history \in Histories
  /\ limit \in Limits
  /\ from = 1
  /\ page = 0
  /\ sessions = << >>
  /\ top = << >>
  /\ gymMap = << >>
  /\ simIdx = 0
  /\ standingsCache = << >>
  /\ gyms = << >>
  /\ gympc = "scan"
  /\ cfCalls = << >>
  /\ gymListSeen = << >>

\* The same call, on a history long enough to run the loop to its last page.
InitGymPaging ==
  /\ history \in PagingHistories
  /\ limit \in Limits
  /\ from = 1
  /\ page = 0
  /\ sessions = << >>
  /\ top = << >>
  /\ gymMap = << >>
  /\ simIdx = 0
  /\ standingsCache = << >>
  /\ gyms = << >>
  /\ gympc = "scan"
  /\ cfCalls = << >>
  /\ gymListSeen = << >>

\* The same call, with a limit that is not positive.
InitGymNoLimit ==
  /\ history \in Histories
  /\ limit \in NonPositiveLimits
  /\ from = 1
  /\ page = 0
  /\ sessions = << >>
  /\ top = << >>
  /\ gymMap = << >>
  /\ simIdx = 0
  /\ standingsCache = << >>
  /\ gyms = << >>
  /\ gympc = "scan"
  /\ cfCalls = << >>
  /\ gymListSeen = << >>

\* await cf.getUserSubmissions(handle, pageSize, from) returns a page: the
\* rest of the loop body, then either the next iteration's call, or the code
\* after the loop up to `await cf.getContestList(true)`, or the early return.
getUserSubmissions ==
  /\ UNCHANGED nonGymVars
  /\ gympc = "scan"
  /\ LET subs == Page(history, from)
         banked == ScanSubs(subs, sessions)
     IN /\ cfCalls' = Append(cfCalls, CfCall("user.status", Missing, from, pageSize, FALSE, TRUE))
        /\ sessions' = banked
        /\ from' = IF subs = << >> THEN from ELSE from + pageSize
        /\ IF Continues(subs, banked, limit, page)
           THEN /\ page' = page + 1
                /\ UNCHANGED << top, gyms, gympc >>
           ELSE /\ UNCHANGED page
                /\ IF ReturnsEmpty(banked)
                   THEN /\ gyms' = << >>
                        /\ gympc' = "returned"
                        /\ UNCHANGED top
                   ELSE /\ top' = SelectTop(banked, limit)
                        /\ gympc' = "catalog"
                        /\ UNCHANGED gyms
  /\ UNCHANGED << history, limit, gymMap, simIdx, standingsCache, gymListSeen >>

\* cf.getUserSubmissions rejects: getGymSimulations rejects.
getUserSubmissionsThrows ==
  /\ UNCHANGED nonGymVars
  /\ gympc = "scan"
  /\ cfCalls' = Append(cfCalls, CfCall("user.status", Missing, from, pageSize, FALSE, FALSE))
  /\ gympc' = "threw"
  /\ UNCHANGED << history, limit, from, page, sessions, top, gymMap, simIdx,
                  standingsCache, gyms, gymListSeen >>

\* await cf.getContestList(true) returns gymList: gymMap is built and the
\* first standings call is made (or, with nothing selected, gyms is returned).
getContestList(gymList) ==
  /\ UNCHANGED nonGymVars
  /\ gympc = "catalog"
  /\ cfCalls' = Append(cfCalls, CfCall("contest.list", Missing, Missing, Missing, TRUE, TRUE))
  /\ gymMap' = BuildGymMap(gymList, top)
  /\ gymListSeen' = gymList
  /\ IF Len(top) = 0
     THEN /\ gyms' = BuildGyms(top, standingsCache, gymMap')
          /\ gympc' = "returned"
          /\ UNCHANGED simIdx
     ELSE /\ simIdx' = 1
          /\ gympc' = "standings"
          /\ UNCHANGED gyms
  /\ UNCHANGED << history, limit, from, page, sessions, top, standingsCache >>

\* Variant: a failed catalog call is skipped like a failed standings call.
getContestListThrows_Isolated ==
  /\ UNCHANGED nonGymVars
  /\ gympc = "catalog"
  /\ cfCalls' = Append(cfCalls, CfCall("contest.list", Missing, Missing, Missing, TRUE, FALSE))
  /\ IF Len(top) = 0
     THEN /\ gyms' = BuildGyms(top, standingsCache, gymMap)
          /\ gympc' = "returned"
          /\ UNCHANGED simIdx
     ELSE /\ simIdx' = 1
          /\ gympc' = "standings"
          /\ UNCHANGED gyms
  /\ UNCHANGED << history, limit, from, page, sessions, top, gymMap, standingsCache,
                  gymListSeen >>

\* cf.getContestList rejects: getGymSimulations rejects.
getContestListThrows ==
  /\ UNCHANGED nonGymVars
  /\ gympc = "catalog"
  /\ cfCalls' = Append(cfCalls, CfCall("contest.list", Missing, Missing, Missing, TRUE, FALSE))
  /\ gympc' = "threw"
  /\ UNCHANGED << history, limit, from, page, sessions, top, gymMap, simIdx,
                  standingsCache, gyms, gymListSeen >>

\* The end of one iteration of `for (const sim of top)`: the next standings
\* call, or the return statement.
NextSim(cache) ==
  IF simIdx = Len(top)
  THEN /\ gyms' = BuildGyms(top, cache, gymMap)
       /\ gympc' = "returned"
       /\ UNCHANGED simIdx
  ELSE /\ simIdx' = simIdx + 1
       /\ UNCHANGED << gyms, gympc >>

\* await cf.getContestStandings(sim.contestId, 1, CAP, [], true) returns data.
getContestStandings(data) ==
  /\ UNCHANGED nonGymVars
  /\ gympc = "standings"
  /\ cfCalls' = Append(cfCalls, CfCall("contest.standings", top[simIdx].contestId, 1, CAP,
                                        TRUE, TRUE))
  /\ standingsCache' = CacheStandings(standingsCache, top[simIdx], data)
  /\ NextSim(standingsCache')
  /\ UNCHANGED << history, limit, from, page, sessions, top, gymMap, gymListSeen >>

\* Variant: a failed standings call ends the resolve.
getContestStandingsThrows_Propagates ==
  /\ UNCHANGED nonGymVars
  /\ gympc = "standings"
  /\ cfCalls' = Append(cfCalls, CfCall("contest.standings", top[simIdx].contestId, 1, CAP,
                                        TRUE, FALSE))
  /\ gympc' = "threw"
  /\ UNCHANGED << history, limit, from, page, sessions, top, gymMap, simIdx,
                  standingsCache, gyms, gymListSeen >>

\* cf.getContestStandings rejects: the catch block skips the session.
getContestStandingsThrows ==
  /\ UNCHANGED nonGymVars
  /\ gympc = "standings"
  /\ cfCalls' = Append(cfCalls, CfCall("contest.standings", top[simIdx].contestId, 1, CAP,
                                        TRUE, FALSE))
  /\ UNCHANGED standingsCache
  /\ NextSim(standingsCache)
  /\ UNCHANGED << history, limit, from, page, sessions, top, gymMap, gymListSeen >>

\* The try/catch of streamAgent around executeTool('get_gym_simulations', ...),
\* whose case returns the promise of getGymSimulations: the tool_result event
\* written when that promise settles.
GymToolSettled ==
  /\ gympc \in { "returned", "threw" }
  /\ events' = IF gympc = "returned"
               THEN writeSSE(events, EvToolResult("get_gym_simulations", TRUE, << >>))
               ELSE writeSSE(events, EvToolResult("get_gym_simulations", FALSE, ApiErrorMessage))
  /\ gympc' = "reported"
  /\ UNCHANGED << pc, anthropicMessages, turnVars, lastStream, attempt, toolVars,
                  sleepVars, streamId, snapshot, nextId, fragsUsed, fragsThis,
                  fragsLost, turn, opens, lastErr, aborted, histVars >>
  /\ UNCHANGED << history, limit, from, page, sessions, top, gymMap, simIdx,
                  standingsCache, gyms, cfCalls, gymListSeen >>
  /\ UNCHANGED << gateVars, chatVars, execVars >>

\* ------------------------------------------------------------ trimHistory

\* A ConversationMessage; id tells two objects with the same fields apart.
Message(role, id) == [role |-> role, content |-> << >>, id |-> id]

\* msgs[msgs.length - 1] of an empty array.
Undefined == [role |-> "undefined", content |-> << >>, id |-> 0]

\* Conversations of every length and arrangement of roles.
Conversations ==
  { [i \in DOMAIN r |-> Message(r[i], i)] :
      r \in UNION { [1 .. n -> {"user", "assistant"}] : n \in 0 .. MaxMessages } }

\* Variant: every pair is kept.
SliceLast_All(ss, k) == ss

\* Array.prototype.slice(-k), for k > 0.
SliceLast(ss, k) == SubSeq(ss, IF Len(ss) > k THEN Len(ss) - k + 1 ELSE 1, Len(ss))

\* for (let i = 0; i < msgs.length - 1; i += 2): the first index (from 1) of
\* every pair pushed.
PairStarts(msgs) ==
  SelectSeq([k \in 1 .. Len(msgs) \div 2 |-> 2 * k - 1],
            LAMBDA st : msgs[st].role = "user" /\ msgs[st + 1].role = "assistant")

\* if (!trimmed.length || trimmed[trimmed.length - 1] !== lastMsg) trimmed.push(lastMsg)
AppendLast(flat, lastMsg) ==
  IF flat = << >> \/ flat[Len(flat)] # lastMsg THEN Append(flat, lastMsg) ELSE flat

\* trimHistory(msgs)
TrimHistory(msgs) ==
  LET lastMsg == IF msgs = << >> THEN Undefined ELSE msgs[Len(msgs)]
      recentPairs == SliceLast(PairStarts(msgs), MAX_HISTORY_TURNS)
      flat == [j \in 1 .. 2 * Len(recentPairs) |->
                 msgs[recentPairs[(j + 1) \div 2] + ((j + 1) % 2)]]
  IN AppendLast(flat, lastMsg)

\* No call of trimHistory and no request.
ChatNotCalled ==
  /\ messages = << >>
  /\ msgsOk = TRUE
  /\ trimmed = << >>
  /\ chatpc = "idle"
  /\ resEnded = FALSE

\* trimHistory is about to be called on a conversation.
InitTrim ==
  /\ messages \in Conversations
  /\ msgsOk = TRUE
  /\ trimmed = << >>
  /\ chatpc = "trim"
  /\ resEnded = FALSE

\* trimHistory(messages) returns.
trimHistory ==
  /\ UNCHANGED << agentVars, gateVars, gymVars, execVars >>
  /\ chatpc = "trim"
  /\ trimmed' = TrimHistory(messages)
  /\ chatpc' = "trimmed"
  /\ UNCHANGED << messages, msgsOk, resEnded >>

\* ---------------------------------------------------------- POST /api/chat

\* Request bodies: no messages array, an empty one, one with a question.
ChatBodies ==
  { [ok |-> FALSE, messages |-> << >>],
    [ok |-> TRUE, messages |-> << >>],
    [ok |-> TRUE, messages |-> << Message("user", 1) >>] }

\* The handler has the request body and streamAgent is not called yet.
InitHandler ==
  /\ \E body \in ChatBodies : messages = body.messages /\ msgsOk = body.ok
  /\ trimmed = << >>
  /\ chatpc = "handler"
  /\ resEnded = FALSE
  /\ pc = "idle"
  /\ anthropicMessages = << >>
  /\ InitLoop

\* if (!messages || !Array.isArray(messages)) { res.status(400).json(...); return }
BadRequest ==
  /\ UNCHANGED << agentVars, gateVars, gymVars, execVars >>
  /\ chatpc = "handler"
  /\ ~msgsOk
  /\ resEnded' = TRUE
  /\ chatpc' = "replied400"
  /\ UNCHANGED << messages, msgsOk, trimmed >>

\* trimHistory(messages).map(m => ({ role: m.role, content: m.content }))
ToMessageParams(ms) ==
  [i \in DOMAIN ms |-> [role |-> ms[i].role, kind |-> "text", content |-> ms[i].content]]

\* Reading m.role of an undefined element throws a TypeError.
MapThrows(ms) == \E i \in DOMAIN ms : ms[i] = Undefined

\* The handler sets the headers and calls streamAgent, which runs down to the
\* while loop: trimHistory and the map are outside the try block, so that an
\* exception there rejects streamAgent, and with it the handler, before
\* anything is written.
StartStream ==
  /\ UNCHANGED << gateVars, gymVars, execVars >>
  /\ chatpc = "handler"
  /\ msgsOk
  /\ trimmed' = TrimHistory(messages)
  /\ IF MapThrows(trimmed')
     THEN /\ pc' = "rejected"
          /\ chatpc' = "rejected"
          /\ UNCHANGED anthropicMessages
     ELSE /\ pc' = "open"
          /\ chatpc' = "streaming"
          /\ anthropicMessages' = ToMessageParams(trimmed')
  /\ UNCHANGED << messages, msgsOk, resEnded, events, turnVars, lastStream, attempt,
                  toolVars, sleepVars, streamId, snapshot, nextId, fragsUsed, fragsThis,
                  fragsLost, turn, opens, lastErr, aborted, histVars >>

\* await streamAgent(...) resolved: res.end()
ResEnd ==
  /\ UNCHANGED << agentVars, gateVars, gymVars, execVars >>
  /\ chatpc = "streaming"
  /\ pc = "returned"
  /\ resEnded' = TRUE
  /\ chatpc' = "ended"
  /\ UNCHANGED << messages, msgsOk, trimmed >>

\* -------------------------------------------------------------- executeTool

\* What the data client returns to a tool: a list of n objects (for
\* get_problems, the problems, with statistics of the first of them).
Items(n) == [i \in 1 .. n |-> [id |-> i, full |-> TRUE]]
ClientData(n) ==
  [ items |-> Items(n),
    problemStatistics |-> IF n = 0 THEN << >> ELSE << [id |-> 1, solvedCount |-> 7] >> ]

\* The value executeTool resolves with, and the error it rejects with.
Resolved(kind, items) == [kind |-> kind, items |-> items, message |-> << >>]
Rejected(message) == [kind |-> "error", items |-> << >>, message |-> message]
NoResult == [kind |-> "none", items |-> << >>, message |-> << >>]

\* The object a trim function makes of an item: the fields it keeps.
Summary(item) == [id |-> item.id]

\* subs.slice(0, max).map(s => ({ ... }))
trimSubmissions(subs, max) ==
  LET kept == SliceFromStart(subs, max) IN [i \in DOMAIN kept |-> Summary(kept[i])]

\* contests.slice(0, max).map(c => ({ ... }))
trimContestList(contests, max) ==
  LET kept == SliceFromStart(contests, max) IN [i \in DOMAIN kept |-> Summary(kept[i])]

\* Variant: the whole list is summarised.
trimRatedList_Uncapped(users, max) == [i \in DOMAIN users |-> Summary(users[i])]

\* users.slice(0, max).map(u => ({ ... }))
trimRatedList(users, max) ==
  LET kept == SliceFromStart(users, max) IN [i \in DOMAIN kept |-> Summary(kept[i])]

\* problems.slice(0, 300).map(p => ({ ..., solvedCount: statMap[...] }))
trimProblems(data) ==
  LET kept == SliceFromStart(data.items, ProblemsCap)
      stat(id) == { k \in DOMAIN data.problemStatistics : data.problemStatistics[k].id = id }
  IN [i \in DOMAIN kept |->
        [id |-> kept[i].id,
         solvedCount |-> IF stat(kept[i].id) = {} THEN Missing
                         ELSE data.problemStatistics[
                                CHOOSE k \in stat(kept[i].id) :
                                  \A j \in stat(kept[i].id) : j <= k].solvedCount]]

\* The return statement of a case of the switch, given what the client
\* returned.
CaseResult(name, data) ==
  CASE name = "get_user_submissions" ->
         Resolved("list", trimSubmissions(data.items, SubmissionsCap))
    [] name = "get_contest_list" ->
         Resolved("list", trimContestList(data.items, ContestListCap))
    [] name = "get_rated_list" ->
         Resolved("list", trimRatedList(data.items, RatedListCap))
    [] name = "get_problems" -> Resolved("list", trimProblems(data))
    [] name = "get_gym_simulations" -> Resolved("gyms", << >>)
    [] OTHER -> Resolved("list", data.items)

\* executeTool is not called.
ExecNotCalled ==
  /\ execName = "none"
  /\ execData = ClientData(0)
  /\ execpc = "idle"
  /\ execResult = NoResult
  /\ execCalls = << >>

\* executeTool(name, input) is called.
InitExec ==
  /\ execName \in CalledNames
  /\ \E n \in 0 .. MaxItems : execData = ClientData(n)
  /\ execpc = "call"
  /\ execResult = NoResult
  /\ execCalls = << >>

\* A case of the switch whose data-client call resolves.
executeTool ==
  /\ UNCHANGED nonExecVars
  /\ execpc = "call"
  /\ execName \in RegisteredTools
  /\ execCalls' = ClientCalls(execName)
  /\ execResult' = CaseResult(execName, execData)
  /\ execpc' = "resolved"
  /\ UNCHANGED << execName, execData >>

\* A case of the switch whose data-client call rejects.
executeToolRejects ==
  /\ UNCHANGED nonExecVars
  /\ execpc = "call"
  /\ execName \in RegisteredTools
  /\ execCalls' = ClientCalls(execName)
  /\ execResult' = Rejected(ApiErrorMessage)
  /\ execpc' = "rejected"
  /\ UNCHANGED << execName, execData >>

\* default: throw new Error(`Unknown tool: ${name}`)
executeToolDefault ==
  /\ UNCHANGED nonExecVars
  /\ execpc = "call"
  /\ execName \notin RegisteredTools
  /\ execCalls' = ClientCalls(execName)
  /\ execResult' = Rejected(UnknownToolMessage(execName))
  /\ execpc' = "rejected"
  /\ UNCHANGED << execName, execData >>

\* ------------------------------------------------------------ specification

Init == InitAgent /\ InitGate /\ GymNotCalled /\ ChatNotCalled /\ ExecNotCalled

Next ==
  \/ OpenStream
  \/ \E e \in StreamErrors : StreamFail(e)
  \/ SleepTick
  \/ SleepDone
  \/ \E name \in ToolNames : ContentBlockStartToolUse(name)
  \/ \E content \in TextChunks : TextDelta(content)
  \/ \E piece \in JsonPieces : InputJsonDelta(piece)
  \/ ContentBlockStop
  \/ \E reason \in StopReasons : MessageDelta(reason)
  \/ OtherEvent
  \/ StreamEnd
  \/ TurnEnd
  \/ ExecuteToolReturn
  \/ ExecuteToolThrow

Spec == Init /\ [][Next]_vars

\* Every stream attempt ends or fails, every timer fires, every tool call
\* returns or throws: whatever step the loop is waiting for happens.
FairSpec == Spec /\ WF_vars(Next)

\* One request in which a rate limit can also interrupt a stream that has
\* yielded events.
NextLossy ==
  \/ Next
  \/ \E e \in StreamErrors : StreamFailLate(e)

SpecLossy == Init /\ [][NextLossy]_vars

NextGate ==
  \/ \E c \in Callers : rateLimit(c)
  \/ \E c \in Callers : rateLimitWake(c)
  \/ \E c \in Callers : cfCallReturn(c)
  \/ ClockTick

SpecGate == Init /\ [][NextGate]_vars

\* One call of getGymSimulations, for every history, limit and data-client
\* response of the bounded sets.
InitResolve == InitAgent /\ InitGate /\ InitGym /\ ChatNotCalled /\ ExecNotCalled

NextGym ==
  \/ getUserSubmissions
  \/ getUserSubmissionsThrows
  \/ \E gymList \in GymLists : getContestList(gymList)
  \/ getContestListThrows
  \/ gympc = "standings" /\ \E data \in Standings(top[simIdx]) : getContestStandings(data)
  \/ getContestStandingsThrows

SpecGym == InitResolve /\ [][NextGym]_vars

\* The same call as the agent loop makes it: its outcome becomes a tool_result
\* event.
NextGymTool ==
  \/ NextGym
  \/ GymToolSettled

SpecGymTool == InitResolve /\ [][NextGymTool]_vars

InitPaging == InitAgent /\ InitGate /\ InitGymPaging /\ ChatNotCalled /\ ExecNotCalled

\* trimHistory on every conversation of the bounded set.
InitTrimming == InitAgent /\ InitGate /\ GymNotCalled /\ InitTrim /\ ExecNotCalled

NextTrim == trimHistory

SpecTrim == InitTrimming /\ [][NextTrim]_vars

\* One request to POST /api/chat, from the handler to the end of the response.
InitChat == InitHandler /\ InitGate /\ GymNotCalled /\ ExecNotCalled

NextChat ==
  \/ BadRequest
  \/ StartStream
  \/ ResEnd
  \/ Next

SpecChat == InitChat /\ [][NextChat]_vars

\* One call of executeTool, for every name and every length of the client's
\* list.
InitTool == InitAgent /\ InitGate /\ GymNotCalled /\ ChatNotCalled /\ InitExec

NextTool ==
  \/ executeTool
  \/ executeToolRejects
  \/ executeToolDefault

SpecTool == InitTool /\ [][NextTool]_vars

SpecPaging == InitPaging /\ [][NextGym]_vars

InitNoLimit == InitAgent /\ InitGate /\ InitGymNoLimit /\ ChatNotCalled /\ ExecNotCalled

SpecNoLimit == InitNoLimit /\ [][NextGym]_vars

\* ------------------------------------------------------ shared by the claims

IsDone(e) == e.type = "done"
IsError(e) == e.type = "error"
IsToolResult(e) == e.type = "tool_result"
IsTextOrToolCall(e) == e.type \in {"text", "tool_call"}

DoneCount == Len(SelectSeq(events, IsDone))
ErrorCount == Len(SelectSeq(events, IsError))

\* The last two events are error(msg), done.
EndsWithErrorDone(msg) ==
  /\ Len(events) >= 2
  /\ events[Len(events) - 1] = EvError(msg)
  /\ events[Len(events)] = EvDone

\* A failure the claims call a rate limit: status 429, or a message that
\* contains 'rate_limit'.
RateLimitFailure(e) == e.status = 429 \/ Includes(e.message, "rate_limit")

\* The current stream attempt has failed with e.
AttemptFailed == lastErr # NoError

\* ---------------------------------------------------------------------- C1

\* C1: the events written by streamAgent hold at most one `done`; it is
\* written exactly when streamAgent returns, on the normal path and on the
\* error path, and it is the last event written.
C1_ExactlyOneDoneLast ==
  /\ DoneCount <= 1
  /\ (pc = "returned") <=> (DoneCount = 1)
  /\ DoneCount = 1 => IsDone(Last(events))

\* C1 witness: a request that ran a throwing tool, went on to the next turn
\* and ended on the error path.
C1_Witness ==
  /\ pc = "returned"
  /\ aborted
  /\ \E i \in DOMAIN executed : ~executed[i].ok

\* ---------------------------------------------------------------------- C2

\* The state after the catch block of streamAgent ran.
C2_AbortState ==
  /\ ErrorCount <= 1
  /\ (ErrorCount = 1) <=> aborted
  /\ aborted => /\ pc = "returned"
                /\ \E msg \in {events[i].msg : i \in DOMAIN events} : EndsWithErrorDone(msg)
  /\ (AttemptFailed /\ ~RateLimitFailure(lastErr))
        => aborted /\ EndsWithErrorDone(lastErr.message)

\* C2: a stream failure that is not a rate limit, or any exception that
\* reaches the catch block, writes exactly one `error` (carrying the
\* failure's message) immediately followed by `done`; from then on no stream
\* is opened, no tool is executed and nothing more is written.
C2_NonRateLimitAborts ==
  /\ []C2_AbortState
  /\ [][aborted => /\ streamId' = streamId
                   /\ executed' = executed
                   /\ events' = events]_vars

\* C2 witness: the second attempt of the second turn fails with a failure
\* that is not a rate limit.
C2_Witness ==
  /\ aborted
  /\ AttemptFailed
  /\ ~RateLimitFailure(lastErr)
  /\ turn = 2
  /\ opens = 2

\* ---------------------------------------------------------------------- C3

\* The attempts of the turn in progress.
C3_AttemptsState ==
  /\ opens <= 4
  /\ (opens = 4 /\ AttemptFailed /\ RateLimitFailure(lastErr))
        => aborted /\ pc = "returned" /\ EndsWithErrorDone(lastErr.message)

\* C3: a turn opens the model stream at most 1 + maxRetries = 4 times; a
\* further attempt of a turn is opened only after the previous one failed
\* with a rate limit; and when the 4th attempt fails with a rate limit the
\* request ends with `error` then `done`.
C3_BoundedRetries ==
  /\ []C3_AttemptsState
  /\ [][(opens' = opens + 1 /\ opens >= 1)
          => (AttemptFailed /\ RateLimitFailure(lastErr))]_vars

\* C3 witness: four attempts in one turn, the fourth failing with a rate
\* limit.
C3_Witness ==
  /\ opens = 4
  /\ AttemptFailed
  /\ RateLimitFailure(lastErr)
  /\ aborted

\* ---------------------------------------------------------------------- C4

\* The wait the claim gives for the k-th retry of a turn.
ClaimedWait(k) == Min(60, 15 * k)

\* C4: the k-th retry of a turn waits min(60, 15k) seconds (15, 30, 45);
\* while the loop sleeps the last event written is `retrying` with exactly
\* that waitSeconds; and every attempt after the first was started after a
\* completed sleep of at least that long.
C4_BackoffSchedule ==
  /\ pc = "sleep" => /\ waitSeconds = ClaimedWait(attempt + 1)
                     /\ Last(events) = EvRetrying(ClaimedWait(attempt + 1))
  /\ \A i \in DOMAIN retryLog :
        /\ retryLog[i].k \in 1 .. 3
        /\ retryLog[i].wait = 15 * retryLog[i].k
        /\ retryLog[i].slept >= retryLog[i].wait
  /\ Cardinality({i \in DOMAIN retryLog : retryLog[i].turn = turn}) = attempt
  /\ \A k \in 1 .. attempt :
        \E i \in DOMAIN retryLog : retryLog[i].turn = turn /\ retryLog[i].k = k
  /\ pc \in {"streaming", "final", "tools"} => opens = attempt + 1

\* C4 witness: the third retry of a turn has slept its 45 seconds and the
\* fourth attempt is streaming.
C4_Witness ==
  /\ pc = "streaming"
  /\ attempt = 3
  /\ \E i \in DOMAIN retryLog : retryLog[i].k = 3 /\ retryLog[i].slept = 45

\* ---------------------------------------------------------------------- C5

\* The executeTool calls of turn t, in order, and the ids of a sequence of
\* tool calls or tool results.
IsOfTurn(t, x) == x.turn = t
ExecutedIn(t) == SelectSeq(executed, LAMBDA x : IsOfTurn(t, x))
FiledIn(t) == SelectSeq(filed, LAMBDA x : IsOfTurn(t, x))
Ids(seq) == [i \in DOMAIN seq |-> seq[i].id]
ResultIds(seq) == [i \in DOMAIN seq |-> seq[i].tool_use_id]

\* The synthetic user message of turn t: the context starts with the
\* question, and each turn that ran tools added its assistant message and
\* its tool results.
ResultsMessage(t) == anthropicMessages[2 * t + 1]

\* The results of turn t collected so far.
ResultsOf(t) == IF turn > t THEN ResultsMessage(t).content ELSE toolResults

\* C5: a tool call that throws writes one `tool_result` event with
\* success=false and the error message and adds one error-flagged result
\* for its call id; the other calls of the turn are still executed, the loop
\* goes on to the next model turn, and no `error` event is due to it: the
\* catch block of streamAgent runs only when a stream attempt has failed.
C5_ToolFailureIsolated ==
  /\ Len(SelectSeq(events, IsToolResult)) = Len(executed)
  /\ aborted => AttemptFailed
  /\ pc = "tools" => ~aborted
  /\ \A i \in DOMAIN executed :
        LET x == executed[i]
            mine == SelectSeq(ResultsOf(x.turn), LAMBDA r : r.tool_use_id = x.id)
        IN ~x.ok =>
             /\ x.msg # <<>>
             /\ events[x.at] = EvToolResult(x.name, FALSE, x.msg)
             /\ Len(mine) = 1
             /\ mine[1].is_error
             /\ mine[1].content = <<"Error:">> \o x.msg
             /\ turn > x.turn \/ (turn = x.turn /\ pc = "tools")
             /\ turn > x.turn => Ids(ExecutedIn(x.turn)) = Ids(turnLog[x.turn].blocks)

\* C5 witness: the first of two tool calls of a turn threw, the second was
\* executed and the next turn's stream is open.
C5_Witness ==
  /\ pc = "streaming"
  /\ turn = 2
  /\ Len(executed) = 2
  /\ ~executed[1].ok
  /\ executed[2].turn = 1

\* ---------------------------------------------------------------------- C6

\* C6: when a turn ends with stop reason tool_use and at least one collected
\* call, the collected calls are executed once each in collection order, one
\* user message holding one result per call (with the call's id, in order)
\* is appended and a new turn starts; when a turn ends otherwise no tool of
\* it is executed and the loop ends with `done`.
C6_TurnEnd ==
  /\ \A i \in DOMAIN executed : executed[i].turn \in DOMAIN turnLog
  /\ Len(anthropicMessages) = 1 + Len(turnLog) + (turn - 1)
  /\ \A t \in DOMAIN turnLog :
        LET blocks == turnLog[t].blocks
            ran == ExecutedIn(t)
        IN IF turnLog[t].stop = "tool_use" /\ Len(blocks) > 0
           THEN /\ Len(ran) <= Len(blocks)
                /\ \A j \in DOMAIN ran : /\ ran[j].id = blocks[j].id
                                         /\ ran[j].name = blocks[j].name
                                         /\ ran[j].input = blocks[j].input
                /\ turn = t => pc = "tools" /\ Len(ran) = toolIdx - 1
                /\ turn > t => /\ Len(ran) = Len(blocks)
                               /\ ResultsMessage(t).role = "user"
                               /\ ResultsMessage(t).kind = "tool_results"
                               /\ ResultIds(ResultsMessage(t).content) = Ids(blocks)
           ELSE /\ ran = <<>>
                /\ turn = t
                /\ pc = "returned"
                /\ ~aborted
                /\ Last(events) = EvDone

\* C6 witness: a turn collected two calls, both were executed and the next
\* turn has started.
C6_Witness ==
  /\ turn = 2
  /\ Len(turnLog[1].blocks) = 2
  /\ Len(ExecutedIn(1)) = 2
  /\ pc = "streaming"

\* ---------------------------------------------------------------------- C7

\* C7: the `text` and `tool_call` events written are, in every state (so
\* before the next fragment is consumed and before any tool runs), exactly
\* the text and tool-call-open fragments consumed so far, in arrival order.
C7_ForwardedInOrder ==
  SelectSeq(events, IsTextOrToolCall) = consumed

\* C7 witness: a tool call opened, then text arrived, and the tool is about
\* to be executed.
C7_Witness ==
  /\ pc = "tools"
  /\ Len(consumed) >= 2
  /\ consumed[1].type = "tool_call"
  /\ consumed[2].type = "text"

\* ---------------------------------------------------------------------- C8

\* A buffer the claim speaks of: empty, or not valid JSON.
UnparsableBuffer(buf) == buf = <<>> \/ ~JsonParse(buf).ok

\* Filed tool calls and their inputs.
C8_State ==
  /\ \A i \in DOMAIN filed :
        UnparsableBuffer(filed[i].buf) => filed[i].input = EmptyObject
  /\ pc \in {"streaming", "sleep", "open", "final", "tools"}
        => Ids(FiledIn(turn)) = Ids(toolUseBlocks)
  /\ \A j \in DOMAIN executed :
        \E i \in DOMAIN filed : /\ filed[i].id = executed[j].id
                                /\ filed[i].input = executed[j].input
  /\ \A t \in DOMAIN turnLog :
        (turnLog[t].stop = "tool_use" /\ turn > t)
           => Ids(ExecutedIn(t)) = Ids(FiledIn(t))

\* C8: a tool call whose buffer is empty or not valid JSON at the close of
\* its block is filed with the empty argument object; the calls filed in a
\* turn are the collected calls of that turn; a call is executed with the
\* input it was filed with; and the close of a block never ends the turn in
\* the catch block.
C8_MalformedArgumentsBecomeEmpty ==
  /\ []C8_State
  /\ [][Len(filed') > Len(filed) => (pc' = "streaming" /\ ~aborted')]_vars

\* C8 witness: a call whose buffer held an unparsable piece was executed
\* with the empty object.
C8_Witness ==
  \E j \in DOMAIN executed : \E i \in DOMAIN filed :
     /\ filed[i].id = executed[j].id
     /\ filed[i].buf # <<>>
     /\ ~JsonParse(filed[i].buf).ok
     /\ executed[j].input = EmptyObject

\* ---------------------------------------------------------------------- C9

\* The turn that ended last asked for no tool run.
LastTurnTerminal ==
  /\ turnLog # <<>>
  /\ ~(Last(turnLog).stop = "tool_use" /\ Len(Last(turnLog).blocks) > 0)

\* C9: when every stream attempt ends or fails, every backoff elapses and
\* every tool call returns or throws, streamAgent eventually writes `done`
\* and returns; and it returns without an `error` event only after a turn
\* whose stop reason was not tool_use or that collected no tool call.
C9_Terminates ==
  /\ <>(pc = "returned" /\ DoneCount = 1)
  /\ [](pc = "returned" /\ ErrorCount = 0 => LastTurnTerminal /\ Last(events) = EvDone)

\* C9 witness: a request that ran a tool, then ended normally in its second
\* turn.
C9_Witness ==
  /\ pc = "returned"
  /\ ErrorCount = 0
  /\ turn = 2
  /\ Len(executed) = 1

\* --------------------------------------------------------------------- C10

\* C10: any two consecutive fetches of the data client start at least 500 ms
\* apart.
C10_FetchesSpaced ==
  \A i \in 1 .. Len(fetches) - 1 : fetches[i + 1].at - fetches[i].at >= 500

\* --------------------------------------------------------------------- C11

\* C11: two callers that each entered the gate while another caller was
\* waiting in it never leave it at the same instant, so their fetches are
\* issued one after the other.
C11_LeaveOneByOne ==
  \A i, j \in DOMAIN fetches :
    ( /\ i < j
      /\ fetches[i].caller # fetches[j].caller
      /\ fetches[i].behind
      /\ fetches[j].behind )
    => fetches[i].at # fetches[j].at

\* --------------------------------------------------------------------- C12

\* The fetches of caller c, in order: c awaits each call before the next.
FetchesOf(c) == SelectSeq(fetches, LAMBDA f : f.caller = c)

\* Consecutive calls of one caller pass the gate at least 500 ms apart, and
\* its n calls span at least 500 * (n - 1) ms.
C12_Spaced ==
  \A c \in Callers :
    LET fs == FetchesOf(c)
    IN /\ \A k \in 1 .. Len(fs) - 1 : fs[k + 1].at - fs[k].at >= 500
       /\ Len(fs) >= 1 => fs[Len(fs)].at - fs[1].at >= 500 * (Len(fs) - 1)

\* The first call of the process passes the gate at the instant it enters.
C12_FirstPasses ==
  \A c \in Callers :
    (fetches = <<>> /\ rateLimit(c))
    => fetches' = << [caller |-> c, at |-> now, behind |-> FALSE] >>

\* C12: when a caller issues its calls one after another, awaiting each, call
\* k+1 passes the gate at least 500 ms after call k, so n calls take at least
\* 500 * (n - 1) ms (three calls take at least 1000 ms); the first call of
\* the process does not wait.
C12_BackToBack == []C12_Spaced /\ [][C12_FirstPasses]_vars

\* One caller has made three calls, the first of which was the first of the
\* process and passed the gate at the time the process started calling.
C12_Witness ==
  \E c \in Callers :
    /\ Len(FetchesOf(c)) = 3
    /\ fetches[1] = [caller |-> c, at |-> StartMs, behind |-> FALSE]

\* --------------------------------------------- shared by the resolver claims

Returned == gympc = "returned"

\* The records the paging loop has read.
ScannedCount == Min(from - 1, Len(history))
Scanned == SubSeq(history, 1, ScannedCount)

\* A VIRTUAL participation in a gym: the contest id is there and above 100000.
IsSimulation(s) ==
  /\ s.author.participantType = "VIRTUAL"
  /\ s.contestId # Missing
  /\ s.contestId > 100000

\* (contestId, startTimeSeconds) of the candidate records that were scanned.
CandidateKeys ==
  { << Scanned[j].contestId, StartTimeOf(Scanned[j]) >> :
      j \in { k \in DOMAIN Scanned : IsSimulation(Scanned[k]) } }

\* (contestId, startTimeSeconds) of the sessions selected.
TopKeys == { << top[i].contestId, top[i].startTimeSeconds >> : i \in DOMAIN top }

\* gyms[i] reports top[i]: same contest, same start (to the minute), same team.
ReportsTop ==
  /\ Len(gyms) = Len(top)
  /\ \A i \in DOMAIN gyms :
       /\ gyms[i].link = "https://codeforces.com/gym/" \o ToString(top[i].contestId)
                         \o "/standings"
       /\ gyms[i].simulatedAt = top[i].startTimeSeconds \div 60
       /\ gyms[i].teamName = top[i].teamName

\* The standings calls made so far, in order.
StandingsCalls == SelectSeq(cfCalls, LAMBDA c : c.method = "contest.standings")

\* --------------------------------------------------------------------- C13

\* C13: for every history and every limit >= 1, getGymSimulations returns
\* exactly min(limit, D) sessions, D being the number of distinct
\* (contestId, startTimeSeconds) among the candidate records scanned, and the
\* sessions returned are the ones with the greatest start times among them.
C13_ExactlyMinLimit ==
  (Returned /\ limit >= 1) =>
    /\ Len(gyms) = Min(limit, Cardinality(CandidateKeys))
    /\ ReportsTop
    /\ Cardinality(TopKeys) = Len(gyms)
    /\ TopKeys \subseteq CandidateKeys
    /\ \A t \in TopKeys : \A k \in CandidateKeys \ TopKeys : t[2] >= k[2]

\* Four sessions were scanned over two pages and the two newest are returned.
C13_Witness ==
  /\ Returned
  /\ limit = 2
  /\ Cardinality(CandidateKeys) = 4
  /\ Len(gyms) = 2
  /\ Len(cfCalls) >= 2

\* --------------------------------------------------------------------- C14

\* C14: the sessions returned are sorted strictly descending by start time:
\* of two consecutive results the earlier one has the strictly greater
\* startTimeSeconds, for every history, sessions of different contests
\* included.
C14_StrictlyDescending ==
  Returned =>
    /\ ReportsTop
    /\ \A i \in 1 .. Len(top) - 1 :
         top[i].startTimeSeconds > top[i + 1].startTimeSeconds

\* --------------------------------------------------------------------- C15

\* The scan stopped with records left unread and pages left to fetch.
StoppedEarly == ScannedCount < Len(history) /\ page + 1 < maxPages

\* C15: no session returned comes from a record that is not exactly VIRTUAL or
\* whose contest id is <= 100000 or missing: such records open no session,
\* supply no team or member data, and do not count towards the limit * 3
\* threshold that ends the scan.
C15_OnlySimulations ==
  (Returned /\ limit >= 1) =>
    /\ ReportsTop
    /\ \A i \in DOMAIN top :
         \E j \in DOMAIN Scanned :
           /\ IsSimulation(Scanned[j])
           /\ top[i].contestId = Scanned[j].contestId
           /\ top[i].startTimeSeconds = StartTimeOf(Scanned[j])
           /\ top[i].teamName = Scanned[j].author.teamName
           /\ Range(top[i].members) = Range(Scanned[j].author.members)
    /\ StoppedEarly => Cardinality(CandidateKeys) >= limit * 3

\* Records of each of the three excluded kinds were scanned next to one
\* simulation, which is the only session returned.
C15_Witness ==
  /\ Returned
  /\ Len(gyms) = 1
  /\ \E j \in DOMAIN Scanned : Scanned[j].contestId = Missing
  /\ \E j \in DOMAIN Scanned : Scanned[j].contestId = 100000
  /\ \E j \in DOMAIN Scanned : Scanned[j].author.participantType = "PRACTICE"

\* --------------------------------------------------------------------- C16

\* h with a copy of its i-th record added at position j.
WithDuplicate(h, i, j) == SubSeq(h, 1, j - 1) \o << h[i] >> \o SubSeq(h, j, Len(h))

\* What getGymSimulations selects on history h.
Selected(h, lim) == SelectTop(ScanAll(h, lim, 1, 0, << >>), lim)

\* No two sessions returned have the same (contestId, startTimeSeconds).
C16_NoTwoAlike ==
  (Returned /\ limit >= 1) =>
    /\ ReportsTop
    /\ \A a, b \in DOMAIN top :
         a # b => << top[a].contestId, top[a].startTimeSeconds >>
                  # << top[b].contestId, top[b].startTimeSeconds >>

\* C16: candidate records with the same (contestId, startTimeSeconds), on one
\* page or on several, collapse to one session: no two sessions returned have
\* the same key, and adding a duplicate of a candidate already scanned does
\* not change the result.
C16_DuplicatesCollapse ==
  (Returned /\ limit >= 1) =>
    /\ C16_NoTwoAlike
    /\ \A i \in DOMAIN Scanned :
         IsSimulation(Scanned[i]) =>
           \A j \in i + 1 .. Len(history) + 1 :
             Selected(WithDuplicate(history, i, j), limit) = top

\* --------------------------------------------------------------------- C17

\* Rows of the same start as the session that share a handle with it, and
\* rows that share a handle with it.
RowsOfTeamAndStart(rows, sim) ==
  { i \in DOMAIN rows :
      /\ rows[i].party.startTimeSeconds = sim.startTimeSeconds
      /\ \E m \in Range(rows[i].party.members) : m \in Range(sim.members) }

RowsOfTeam(rows, sim) ==
  { i \in DOMAIN rows :
      \E m \in Range(rows[i].party.members) : m \in Range(sim.members) }

SolvedIn(row) ==
  Cardinality({ p \in DOMAIN row.problemResults : row.problemResults[p] > 0 })

\* After this step the session is bound to row.
BoundTo(sim, row) ==
  /\ SessionKey(sim) \in DOMAIN standingsCache'
  /\ standingsCache'[SessionKey(sim)].rank = row.rank
  /\ standingsCache'[SessionKey(sim)].solved = SolvedIn(row)
  /\ gympc' = "returned" => gyms'[simIdx].rank = ToString(row.rank)

\* After this step the session is bound to no row.
Unbound(sim) ==
  /\ SessionKey(sim) \notin DOMAIN standingsCache'
  /\ gympc' = "returned" =>
       /\ Len(gyms') = Len(top)
       /\ gyms'[simIdx].rank = Null
       /\ gyms'[simIdx].solved = Null

C17_Step ==
  gympc = "standings" =>
    \A data \in Standings(top[simIdx]) :
      ( /\ getContestStandings(data)
        /\ RowsOfTeamAndStart(data.rows, top[simIdx]) # {} )
      => BoundTo(top[simIdx],
                 data.rows[MinOf(RowsOfTeamAndStart(data.rows, top[simIdx]))])

\* C17: when the standings hold a row whose party start equals the session's
\* start and whose party shares a handle with the session's members, the
\* session is bound to the first such row in standings order, also when an
\* earlier row has the same start but no shared handle, or a shared handle but
\* another start.
C17_FirstRowOfTeamAndStart == [][C17_Step]_vars

\* Two sessions are returned: one was bound behind a better-ranked team of the
\* same start (rank 177 behind 120), the other behind an earlier row of its
\* own members from another start (rank 9 behind 5).
C17_Witness ==
  /\ Returned
  /\ \E i \in DOMAIN gyms : gyms[i].rank = "177"
  /\ \E i \in DOMAIN gyms : gyms[i].rank = "9"

\* --------------------------------------------------------------------- C18

C18_Step ==
  gympc = "standings" =>
    \A data \in Standings(top[simIdx]) :
      ( /\ getContestStandings(data)
        /\ RowsOfTeamAndStart(data.rows, top[simIdx]) = {} )
      => IF RowsOfTeam(data.rows, top[simIdx]) # {}
         THEN BoundTo(top[simIdx],
                      data.rows[MinOf(RowsOfTeam(data.rows, top[simIdx]))])
         ELSE Unbound(top[simIdx])

\* C18: when no row matches both the start and a member, the session is bound
\* to the first row that shares a member, whatever its start; when no row
\* shares a member either, the session is still returned, with rank null and
\* solved null.
C18_FallbackThenNull == [][C18_Step]_vars

\* Two sessions are returned after two standings calls that both resolved:
\* one bound by the fallback (rank 7), one bound to no row.
C18_Witness ==
  /\ Returned
  /\ Len(gyms) = 2
  /\ \A k \in DOMAIN StandingsCalls : StandingsCalls[k].ok
  /\ \E i \in DOMAIN gyms : gyms[i].rank = "7"
  /\ \E i \in DOMAIN gyms :
       /\ gyms[i].rank = Null
       /\ gyms[i].solved = Null
       /\ top[i].members # << >>

\* --------------------------------------------------------------------- C19

NoRows == [ problems |-> << >>, rows |-> << >> ]

\* A standings call that rejects leaves what a response without rows leaves,
\* and the loop goes on to the next session.
C19_Step ==
  getContestStandingsThrows =>
    /\ standingsCache' = CacheStandings(standingsCache, top[simIdx], NoRows)
    /\ SessionKey(top[simIdx]) \notin DOMAIN standingsCache'
    /\ IF simIdx < Len(top)
       THEN gympc' = "standings" /\ simIdx' = simIdx + 1
       ELSE gympc' = "returned" /\ gyms' = BuildGyms(top, standingsCache', gymMap)

\* Every selected session was asked for, in order, and is returned; the ones
\* whose call rejected have rank null and solved null.
C19_AllReturned ==
  (Returned /\ Len(top) > 0) =>
    /\ ReportsTop
    /\ Len(StandingsCalls) = Len(top)
    /\ \A k \in DOMAIN StandingsCalls :
         /\ StandingsCalls[k].contestId = top[k].contestId
         /\ ~StandingsCalls[k].ok => gyms[k].rank = Null /\ gyms[k].solved = Null

\* C19: if the standings fetch throws for one selected session, that session
\* is still returned with rank null and solved null, the standings of every
\* later session are still fetched, and the rank and solved of the other
\* sessions are what they would be had the failing fetch returned no rows.
C19_StandingsFailureIsolated == []C19_AllReturned /\ [][C19_Step]_vars

\* The first of two standings calls rejected, the second resolved and bound
\* its session.
C19_Witness ==
  /\ Returned
  /\ Len(gyms) = 2
  /\ Len(StandingsCalls) = 2
  /\ ~StandingsCalls[1].ok
  /\ StandingsCalls[2].ok
  /\ gyms[1].rank = Null
  /\ gyms[1].solved = Null
  /\ gyms[2].rank = "177"

\* --------------------------------------------------------------------- C20

\* C20: when the scan finds no candidate session (an empty history, or only
\* records that are not gym or not VIRTUAL), getGymSimulations returns
\* {handle, gyms: []} without throwing and without calling the gym catalog or
\* any standings endpoint.
C20_EmptyWithoutCalls ==
  (gympc \notin { "scan", "threw" } /\ CandidateKeys = {}) =>
    /\ Returned
    /\ gyms = << >>
    /\ \A k \in DOMAIN cfCalls : cfCalls[k].method = "user.status" /\ cfCalls[k].ok

\* A history of three records, none of them a simulation, was scanned to its
\* end (a full page, then an empty one), and the empty list is returned.
C20_Witness ==
  /\ Returned
  /\ gyms = << >>
  /\ Len(history) = 3
  /\ ScannedCount = Len(history)
  /\ \E j \in DOMAIN Scanned : Scanned[j].author.participantType = "PRACTICE"
  /\ Len(cfCalls) = 2

\* --------------------------------------------------------------------- C21

\* The user.status calls made so far.
StatusCalls == SelectSeq(cfCalls, LAMBDA c : c.method = "user.status")

\* The k-th page of the history, and the distinct sessions among the
\* candidate records of the first k pages.
PageAt(k) ==
  SubSeq(history, (k - 1) * pageSize + 1, Min(k * pageSize, Len(history)))
KeysBy(k) ==
  { << history[j].contestId, StartTimeOf(history[j]) >> :
      j \in { i \in 1 .. Min(k * pageSize, Len(history)) : IsSimulation(history[i]) } }

\* The k-th page ends the scan.
StopsAt(k) ==
  \/ Len(PageAt(k)) < pageSize
  \/ Cardinality(KeysBy(k)) >= limit * BankFactor
  \/ k = maxPages

\* C21: the submission history is read in pages of pageSize records at
\* offsets 1, 1 + pageSize, 1 + 2 * pageSize, ...; the scan stops after the
\* first page that is empty or shorter than pageSize, or at whose end at
\* least limit * 3 distinct sessions are banked, and in any case after
\* maxPages pages, so that there are never more than maxPages calls.
C21_PagesUntilStop ==
  LET n == Len(StatusCalls)
  IN /\ n <= maxPages
     /\ \A k \in 1 .. n :
          /\ StatusCalls[k].from = 1 + (k - 1) * pageSize
          /\ StatusCalls[k].count = pageSize
     /\ \A k \in 1 .. n - 1 : ~StopsAt(k)
     /\ gympc = "scan" /\ n >= 1 => ~StopsAt(n)
     /\ gympc \in { "catalog", "standings", "returned" } => n >= 1 /\ StopsAt(n)

\* The last page was full and too few sessions were banked, with records
\* left unread: only the page limit stopped the scan.
C21_Witness ==
  /\ gympc = "catalog"
  /\ Len(StatusCalls) = maxPages
  /\ Len(PageAt(maxPages)) = pageSize
  /\ Cardinality(KeysBy(maxPages)) < limit * BankFactor
  /\ Len(history) > maxPages * pageSize

\* The scan stopped before the last page on the sessions banked.
C21_StopsOnSessions ==
  /\ gympc = "catalog"
  /\ Len(StatusCalls) < maxPages
  /\ Len(PageAt(Len(StatusCalls))) = pageSize
  /\ Cardinality(KeysBy(Len(StatusCalls))) >= limit * BankFactor

\* --------------------------------------------------------------------- C22

\* The contest.list calls made so far, and the catalog entries of a contest.
CatalogCalls == SelectSeq(cfCalls, LAMBDA c : c.method = "contest.list")
CatalogEntries(id) == { k \in DOMAIN gymListSeen : gymListSeen[k].id = id }

\* C22: when at least one session was found, the catalog is fetched exactly
\* once per call; a selected session whose contest is not in the catalog is
\* returned all the same, named "Gym #<contestId>" with no difficulty and no
\* duration, and a session whose contest is listed has the entry's name.
C22_CatalogOnceWithFallback ==
  /\ gympc \in { "standings", "returned" } /\ sessions # << >> =>
       /\ Len(CatalogCalls) = 1
       /\ CatalogCalls[1].contestId = Missing
  /\ Returned /\ sessions # << >> /\ limit >= 1 =>
       /\ Len(gyms) = Len(top)
       /\ Len(gyms) >= 1
       /\ \A i \in DOMAIN gyms :
            IF CatalogEntries(top[i].contestId) = {}
            THEN /\ gyms[i].name = "Gym #" \o ToString(top[i].contestId)
                 /\ gyms[i].difficulty = << >>
                 /\ gyms[i].durationHours = Missing
            ELSE \E k \in CatalogEntries(top[i].contestId) :
                   gyms[i].name = gymListSeen[k].name

\* Two sessions are returned, one of a listed gym and one of a gym the catalog
\* does not have.
C22_Witness ==
  /\ Returned
  /\ Len(gyms) = 2
  /\ Len(gymListSeen) = 1
  /\ top[1].contestId = 100001 /\ gyms[1].name = "Alpha Cup"
  /\ top[2].contestId = 100002 /\ gyms[2].name = "Gym #100002"

\* --------------------------------------------------------------------- C23

\* The first record read that belongs to the session.
FirstRecordOf(sim) ==
  MinOf({ j \in DOMAIN Scanned :
            /\ IsSimulation(Scanned[j])
            /\ Scanned[j].contestId = sim.contestId
            /\ StartTimeOf(Scanned[j]) = sim.startTimeSeconds })

\* hs lists the handles of ms, once each, in ascending order.
IsSortedListOf(hs, ms) ==
  /\ Range(hs) = Range(ms)
  /\ Len(hs) = Len(ms)
  /\ \A i, j \in DOMAIN hs : i < j => HandleRank(hs[i]) < HandleRank(hs[j])

\* C23: every result has a non-empty members list: the sorted handles of the
\* session's party when the party carried any, the requested handle alone
\* otherwise.
C23_MembersNeverEmpty ==
  Returned /\ limit >= 1 =>
    \A i \in DOMAIN gyms :
      LET party == Scanned[FirstRecordOf(top[i])].author.members
      IN /\ gyms[i].members # << >>
         /\ IF party # << >>
            THEN IsSortedListOf(gyms[i].members, party)
            ELSE gyms[i].members = << RequestedHandle >>

\* One result of a party listed out of order, one of a party with no member.
C23_Witness ==
  /\ Returned
  /\ Len(gyms) = 2
  /\ Scanned[FirstRecordOf(top[1])].author.members = << "b", "a" >>
  /\ gyms[1].members = << "a", "b" >>
  /\ Scanned[FirstRecordOf(top[2])].author.members = << >>
  /\ gyms[2].members = << RequestedHandle >>

\* --------------------------------------------------------------------- C24

\* The row the session of this iteration is bound to: the first row of its
\* team and start, else the first row of its team; 0 when there is none.
RowBound(data, sim) ==
  IF RowsOfTeamAndStart(data.rows, sim) # {}
  THEN MinOf(RowsOfTeamAndStart(data.rows, sim))
  ELSE IF RowsOfTeam(data.rows, sim) # {}
       THEN MinOf(RowsOfTeam(data.rows, sim))
       ELSE 0

\* The entry kept for the session holds the row's rank, the number of its
\* problem results above zero and the number of problems of the response.
C24_Step(data) ==
  getContestStandings(data) /\ RowBound(data, top[simIdx]) # 0 =>
    LET row == data.rows[RowBound(data, top[simIdx])]
        e == standingsCache'[SessionKey(top[simIdx])]
    IN /\ e.rank = row.rank
       /\ e.solved = Cardinality({ p \in DOMAIN row.problemResults :
                                     row.problemResults[p] > 0 })
       /\ e.totalProblems = Len(data.problems)

\* C24: for a session bound to a standings row, solved is "s/t", s the number
\* of the row's problem results with points > 0 and t the number of problems
\* of the response, and rank is the row's rank as a string.
C24_SolvedAndRank ==
  /\ [](Returned =>
         \A i \in DOMAIN gyms :
           SessionKey(top[i]) \in DOMAIN standingsCache =>
             LET e == standingsCache[SessionKey(top[i])]
             IN /\ gyms[i].rank = ToString(e.rank)
                /\ gyms[i].solved = ToString(e.solved) \o "/" \o ToString(e.totalProblems))
  /\ [][gympc = "standings" =>
          \A data \in Standings(top[simIdx]) : C24_Step(data)]_vars

\* The first of two results was bound to the row of rank 9, which solved one
\* problem of three.
C24_Witness ==
  /\ Returned
  /\ Len(gyms) = 2
  /\ gyms[1].rank = "9"
  /\ gyms[1].solved = "1/3"
  /\ gyms[2].rank = "177"
  /\ gyms[2].solved = "2/3"

\* --------------------------------------------------------------------- C25

\* The user messages of the input, by position.
UserPositions == { i \in DOMAIN messages : messages[i].role = "user" }

\* C25: for every non-empty message list with at least one user message, the
\* list trimHistory returns contains the most recent user message of the
\* input, whatever the length and the arrangement of roles.
C25_KeepsLatestUserMessage ==
  chatpc = "trimmed" /\ UserPositions # {} =>
    \E j \in DOMAIN trimmed :
      trimmed[j] = messages[CHOOSE i \in UserPositions : \A k \in UserPositions : k <= i]

\* --------------------------------------------------------------------- C26

\* The adjacent user-then-assistant pairs that precede the final message, by
\* the position of their user message, and the last four of them.
TurnStarts ==
  { i \in DOMAIN messages :
      /\ i + 1 < Len(messages)
      /\ messages[i].role = "user"
      /\ messages[i + 1].role = "assistant" }
RecentTurnStarts ==
  { i \in TurnStarts : Cardinality({ k \in TurnStarts : k > i }) < 4 }

\* C26: trimHistory retains the most recent 4 (user, assistant) turns: each
\* of the last 4 adjacent user-then-assistant pairs that precede the final
\* message appears in the output, wherever the pair sits in the list.
C26_KeepsRecentTurns ==
  chatpc = "trimmed" =>
    \A i \in RecentTurnStarts :
      \E j \in DOMAIN trimmed :
        /\ j + 1 \in DOMAIN trimmed
        /\ trimmed[j] = messages[i]
        /\ trimmed[j + 1] = messages[i + 1]

\* --------------------------------------------------------------------- C27

\* The tools that return a trimmed list, and their caps.
IsCapped(name) ==
  name \in { "get_user_submissions", "get_contest_list", "get_rated_list", "get_problems" }
CapOf(name) ==
  CASE name = "get_user_submissions" -> 200
    [] name = "get_contest_list" -> 300
    [] name = "get_rated_list" -> 100
    [] name = "get_problems" -> 300

\* C27: for get_user_submissions, get_contest_list, get_rated_list and the
\* problems of get_problems, the list executeTool returns is the first
\* min(n, cap) items of the n the data client returned, in the same order:
\* cap 200, 300, 100 and 300.
C27_FirstItemsUpToCap ==
  execpc = "resolved" /\ IsCapped(execName) =>
    LET n == Len(execData.items)
        k == IF n < CapOf(execName) THEN n ELSE CapOf(execName)
    IN /\ Len(execResult.items) = k
       /\ \A i \in 1 .. k : execResult.items[i].id = execData.items[i].id

\* The rated list had more than a hundred users and a hundred were returned.
C27_Witness ==
  /\ execpc = "resolved"
  /\ execName = "get_rated_list"
  /\ Len(execData.items) > 100
  /\ Len(execResult.items) = 100
  /\ execResult.items[100].id = execData.items[100].id

\* --------------------------------------------------------------------- C28

\* The names of the registry.
Registry ==
  { "get_user_info", "get_user_rating", "get_user_submissions", "get_contest_list",
    "get_contest_standings", "get_contest_status", "get_contest_rating_changes",
    "get_problems", "get_recent_actions", "get_rated_list", "get_gym_simulations" }

\* The call of an unregistered tool is reported and the loop goes on.
C28_Step ==
  ExecuteToolThrow /\ toolUseBlocks[toolIdx].name \notin Registry =>
    /\ pc' \in { "tools", "open" }
    /\ ~aborted'
    /\ Len(events') = Len(events) + 1
    /\ Last(events').type = "tool_result"

\* C28: for every tool name that is not registered, executeTool throws
\* "Unknown tool: <name>" and calls no data-client method; in the agent loop
\* this gives a tool_result event with success = false and the request goes
\* on.
C28_UnknownToolReported ==
  /\ [](\A i \in DOMAIN executed :
          executed[i].name \notin Registry =>
            /\ ~executed[i].ok
            /\ executed[i].msg = << "Unknown", "tool:", executed[i].name >>
            /\ executed[i].called = << >>
            /\ events[executed[i].at] =
                 EvToolResult(executed[i].name, FALSE, executed[i].msg))
  /\ [][pc = "tools" => C28_Step]_vars

\* An unregistered tool was called, and the request went on to its next turn
\* and ended without an error.
C28_Witness ==
  /\ pc = "returned"
  /\ ~aborted
  /\ \E i \in DOMAIN executed :
       /\ executed[i].name = "get_weather"
       /\ ~executed[i].ok
       /\ executed[i].called = << >>
  /\ Last(events) = EvDone
  /\ turn > 1

\* --------------------------------------------------------------------- C29

\* C29: executeTool('get_gym_recommendations', ...) is routed to the
\* recommendations function and resolves, without throwing, to an object
\* whose recommendations are at most 5 when no limit is given.
C29_RecommendationsRouted ==
  execName = "get_gym_recommendations" /\ execpc # "call" =>
    /\ execpc = "resolved"
    /\ execResult.kind = "recommendations"
    /\ Len(execResult.items) <= 5

\* --------------------------------------------------------------------- C30

\* The done events written.
DoneEvents == SelectSeq(events, IsDone)

\* The request has nothing more to do.
ChatSettled == chatpc \in { "ended", "rejected", "replied400" }

\* C30: a request whose message list is the empty array ends with exactly
\* one done event, and the handler then ends the response.
C30_EmptyListStillEnds ==
  msgsOk /\ messages = << >> /\ ChatSettled =>
    /\ Len(DoneEvents) = 1
    /\ Last(events) = EvDone
    /\ resEnded

\* --------------------------------------------------------------------- C31

\* The output, less a final message appended after the pairs.
PairsPart ==
  IF Len(trimmed) % 2 = 1 THEN SubSeq(trimmed, 1, Len(trimmed) - 1) ELSE trimmed

\* C31: for every non-empty message list, the output of trimHistory is an
\* order-preserving subsequence of the input made of at most 4 (user,
\* assistant) pairs followed, if it is not already the last element, by the
\* input's final message: at most 9 messages, the last of which is the
\* input's final message.
C31_PairsThenFinalMessage ==
  chatpc = "trimmed" /\ messages # << >> =>
    /\ \A j \in DOMAIN trimmed :
         /\ trimmed[j].id \in DOMAIN messages
         /\ trimmed[j] = messages[trimmed[j].id]
    /\ \A j \in DOMAIN trimmed :
         j + 1 \in DOMAIN trimmed => trimmed[j].id < trimmed[j + 1].id
    /\ Len(PairsPart) <= 2 * 4
    /\ \A j \in DOMAIN PairsPart :
         j % 2 = 1 =>
           /\ PairsPart[j].role = "user"
           /\ PairsPart[j + 1].role = "assistant"
           /\ PairsPart[j + 1].id = PairsPart[j].id + 1
    /\ Len(trimmed) <= 9
    /\ trimmed[Len(trimmed)] = messages[Len(messages)]

\* Five turns and a question: the first turn is dropped, nine messages are
\* returned.
C31_Witness ==
  /\ chatpc = "trimmed"
  /\ Len(messages) = 11
  /\ Len(trimmed) = 9
  /\ trimmed[1] = messages[3]
  /\ trimmed[9] = messages[11]

\* --------------------------------------------------------------------- C32

\* Every banked session has the team name and the members, sorted, of the
\* first candidate record read with its key, and no two sessions share a key.
FirstSeenWins ==
  /\ \A i \in DOMAIN sessions :
       LET first == Scanned[FirstRecordOf(sessions[i])]
       IN /\ sessions[i].teamName = first.author.teamName
          /\ IsSortedListOf(sessions[i].members, first.author.members)
  /\ \A i, j \in DOMAIN sessions :
       SessionKey(sessions[i]) = SessionKey(sessions[j]) => i = j

\* C32: for each session key, the team name and the member set come from the
\* first candidate submission seen with that key in scan order; later
\* submissions with the same key never change them; the stored handles are
\* in ascending order.
C32_FirstSeenWins ==
  /\ []FirstSeenWins
  /\ [][\A i \in DOMAIN sessions :
          i \in DOMAIN sessions' /\ sessions'[i] = sessions[i]]_vars

\* A record of the second page has the key of a session banked from the
\* first page, with another team name and other members.
C32_Witness ==
  /\ ScannedCount > pageSize
  /\ \E i \in DOMAIN sessions : \E j \in pageSize + 1 .. ScannedCount :
       /\ FirstRecordOf(sessions[i]) <= pageSize
       /\ IsSimulation(Scanned[j])
       /\ Scanned[j].contestId = sessions[i].contestId
       /\ StartTimeOf(Scanned[j]) = sessions[i].startTimeSeconds
       /\ Scanned[j].author.teamName # sessions[i].teamName
       /\ Len(Scanned[j].author.members) # Len(sessions[i].members)

\* --------------------------------------------------------------------- C33

\* C33: one standings call per selected session, in the order of selection,
\* newest first, each with from = 1, count = 3000, no handle filter and
\* showUnofficial = true, also when two selected sessions have the same
\* contest id; so for limit >= 1 one resolve makes at most
\* maxPages + 1 + limit data-client calls.
C33_OneStandingsCallEach ==
  limit >= 1 =>
    /\ Len(StandingsCalls) <= Len(top)
    /\ \A i \in DOMAIN StandingsCalls :
         /\ StandingsCalls[i].contestId = top[i].contestId
         /\ StandingsCalls[i].from = 1
         /\ StandingsCalls[i].count = 3000
         /\ StandingsCalls[i].handles = << >>
         /\ StandingsCalls[i].flag = TRUE
    /\ \A i \in DOMAIN top :
         i + 1 \in DOMAIN top => top[i].startTimeSeconds >= top[i + 1].startTimeSeconds
    /\ Returned => Len(StandingsCalls) = Len(top)
    /\ Len(cfCalls) <= maxPages + 1 + limit

\* Two sessions of the same gym were selected after the scan ran into the
\* page limit, and the resolve made every call of its budget.
C33_Witness ==
  /\ Returned
  /\ limit = 2
  /\ Len(StatusCalls) = maxPages
  /\ Len(cfCalls) = maxPages + 1 + limit
  /\ Len(StandingsCalls) = 2
  /\ StandingsCalls[1].contestId = StandingsCalls[2].contestId
  /\ top[1].startTimeSeconds > top[2].startTimeSeconds

\* --------------------------------------------------------------------- C34

\* C34: for every history and every integer limit <= 0, the returned session
\* list is empty: the number of returned sessions never exceeds max(limit, 0).
C34_NoSessionForNoLimit ==
  Returned /\ limit <= 0 => gyms = << >>

\* --------------------------------------------------------------------- C35

\* The ids of the tool-use blocks of an assistant message.
ToolUseIds(msg) ==
  { msg.content[j].id : j \in { k \in DOMAIN msg.content : msg.content[k].type = "tool_use" } }

\* C35: in every context sent to the model, the ids of the results of a
\* synthetic tool-result message are exactly the ids of the tool-use blocks
\* of the assistant message before it, none missing, extra or repeated, also
\* in a turn where an attempt failed with a rate limit after fragments had
\* been consumed and was retried.  Stated for the streams the provider
\* produces, in which every tool-use block that was opened is closed.
C35_ResultsMatchToolUses ==
  \A k \in DOMAIN anthropicMessages :
    anthropicMessages[k].kind = "tool_results" =>
      LET ids == ResultIds(anthropicMessages[k].content)
      IN /\ k > 1
         /\ anthropicMessages[k - 1].kind = "blocks"
         /\ ToolUseIds(anthropicMessages[k - 1]) \subseteq Range(Ids(filed)) =>
              /\ Range(ids) = ToolUseIds(anthropicMessages[k - 1])
              /\ \A i, j \in DOMAIN ids : ids[i] = ids[j] => i = j

\* --------------------------------------------------------------------- C36

RECURSIVE ConcatAll(_)
ConcatAll(seqs) == IF seqs = <<>> THEN <<>> ELSE Head(seqs) \o ConcatAll(Tail(seqs))

IsText(e) == e.type = "text"
IsTextBlock(b) == b.type = "text"
IsAssistant(m) == m.role = "assistant"

\* The text of an assistant message: its text blocks, in order.
TextOf(msg) ==
  LET blocks == SelectSeq(msg.content, IsTextBlock)
  IN ConcatAll([i \in DOMAIN blocks |-> blocks[i].text])

\* The text of the `text` events written so far.
ForwardedText ==
  LET written == SelectSeq(events, IsText)
  IN ConcatAll([i \in DOMAIN written |-> written[i].msg])

\* The text of the assistant messages recorded so far.
RecordedText ==
  LET answers == SelectSeq(anthropicMessages, IsAssistant)
  IN ConcatAll([i \in DOMAIN answers |-> TextOf(answers[i])])

\* C36: the concatenation of the `text` events of a turn is the text of the
\* assistant message recorded for the turn, also when the turn needed stream
\* retries.  Stated over the turns recorded so far, whenever the last turn
\* started has been recorded: the text forwarded is the text recorded.
C36_ForwardedTextIsRecorded ==
  (pc = "tools" \/ (pc = "returned" /\ ~aborted)) => ForwardedText = RecordedText

\* --------------------------------------------------------------------- C37

IsToolCall(e) == e.type = "tool_call"

\* The names of the events of one type, in the order written.
NamesOf(log) == [i \in DOMAIN log |-> log[i].name]

\* C37: in a request that ends without an `error` event, each `tool_call`
\* event is followed, before `done`, by a `tool_result` event for the same
\* call, and there are as many tool_result events as tool_call events,
\* whatever stop reason the model reports.  Stated for the streams the
\* provider produces, in which every tool-use block that was opened is closed
\* and every turn reports a stop reason.
C37_EveryToolCallHasResult ==
  ( /\ pc = "returned"
    /\ ErrorCount = 0
    /\ Len(filed) = Len(SelectSeq(events, IsToolCall))
    /\ \A t \in DOMAIN turnLog : turnLog[t].stop \in StopReasons ) =>
     /\ events[Len(events)] = EvDone
     /\ NamesOf(SelectSeq(events, IsToolResult)) = NamesOf(SelectSeq(events, IsToolCall))
     /\ \A i \in DOMAIN events :
          IsToolCall(events[i]) =>
            \E j \in DOMAIN events :
              /\ j > i
              /\ IsToolResult(events[j])
              /\ events[j].name = events[i].name

\* --------------------------------------------------------------------- C38

\* The results returned: rank and solved are null together, they are there
\* exactly for the sessions with a standings entry, and a session whose
\* standings call rejected has neither.
C38_State ==
  Returned =>
    \A i \in DOMAIN gyms :
      /\ gyms[i].rank = Null <=> gyms[i].solved = Null
      /\ gyms[i].rank # Null <=> SessionKey(top[i]) \in DOMAIN standingsCache
      /\ (i \in DOMAIN StandingsCalls /\ ~StandingsCalls[i].ok) =>
           gyms[i].rank = Null /\ gyms[i].solved = Null

\* A session gets its standings entry in the step that binds it to a row,
\* and in no other: not when the call rejects, not when no row matches.
C38_Step ==
  gympc = "standings" =>
    LET key == SessionKey(top[simIdx])
    IN /\ key \notin DOMAIN standingsCache
       /\ getContestStandingsThrows => DOMAIN standingsCache' = DOMAIN standingsCache
       /\ \A data \in Standings(top[simIdx]) :
            getContestStandings(data) =>
              DOMAIN standingsCache' =
                IF RowBound(data, top[simIdx]) # 0
                THEN DOMAIN standingsCache \cup { key }
                ELSE DOMAIN standingsCache

\* C38: in every GymResult rank is null if and only if solved is null; both
\* are non-null exactly when the session was bound to a standings row, and
\* both are null when the standings fetch failed or no row matched.
C38_RankIffSolved == []C38_State /\ [][C38_Step]_vars

\* Two sessions are returned: the first was bound to a row and has rank and
\* solved, the standings call of the second rejected and it has neither.
C38_Witness ==
  /\ Returned
  /\ Len(gyms) = 2
  /\ StandingsCalls[1].ok
  /\ gyms[1].rank # Null
  /\ gyms[1].solved # Null
  /\ ~StandingsCalls[2].ok
  /\ gyms[2].rank = Null
  /\ gyms[2].solved = Null

\* --------------------------------------------------------------------- C39

\* The calls for a page of submissions or for the gym catalog that rejected.
FailedScanCalls ==
  { k \in DOMAIN cfCalls :
      cfCalls[k].method \in { "user.status", "contest.list" } /\ ~cfCalls[k].ok }

\* C39: a failure of a submission-page fetch or of the gym-catalog fetch is
\* not isolated: it is the last call getGymSimulations makes, the function
\* throws (only then; a standings failure never makes it throw), no session
\* is returned even if some were discovered, no standings call is made, and
\* the agent loop writes one tool_result with success=false for it.
C39_ScanFailureNotIsolated ==
  /\ gympc = "threw" => FailedScanCalls # {}
  /\ FailedScanCalls # {} =>
       /\ FailedScanCalls = { Len(cfCalls) }
       /\ gympc \in { "threw", "reported" }
       /\ gyms = << >>
       /\ StandingsCalls = << >>
       /\ gympc = "reported" =>
            SelectSeq(events, IsToolResult)
              = << EvToolResult("get_gym_simulations", FALSE, ApiErrorMessage) >>

\* Two sessions had been discovered and selected when the catalog call
\* rejected; the tool result has been written.
C39_Witness ==
  /\ gympc = "reported"
  /\ Len(sessions) = 2
  /\ Len(top) = 2
  /\ cfCalls[Len(cfCalls)].method = "contest.list"
  /\ ~cfCalls[Len(cfCalls)].ok
  /\ gyms = << >>
  /\ Len(events) = 1

\* --------------------------------------------------------------------- C40

\* A standings response with a row that started when the session started and
\* has the requested handle among its members.
HasRowOfRequestedHandle(data, sim) ==
  \E i \in DOMAIN data.rows :
    /\ data.rows[i].party.startTimeSeconds = sim.startTimeSeconds
    /\ RequestedHandle \in Range(data.rows[i].party.members)

\* The results returned for sessions stored without members: the requested
\* handle is reported as the sole member, rank and solved are null.
C40_State ==
  Returned =>
    \A i \in DOMAIN gyms :
      top[i].members = << >> =>
        /\ gyms[i].members = << RequestedHandle >>
        /\ gyms[i].rank = Null
        /\ gyms[i].solved = Null

\* The standings step of a session stored without members binds no row,
\* whatever the response; one of the responses holds a row of the same start
\* with the requested handle.
C40_Step ==
  (gympc = "standings" /\ top[simIdx].members = << >>) =>
    /\ \E data \in Standings(top[simIdx]) : HasRowOfRequestedHandle(data, top[simIdx])
    /\ \A data \in Standings(top[simIdx]) :
         getContestStandings(data) =>
           SessionKey(top[simIdx]) \notin DOMAIN standingsCache'

\* C40: the standings join uses the session's stored member set, not the
\* reported members: a session whose first-seen party carried no member list
\* is never bound to a standings row, so its rank and solved are null for
\* every standings content, even when a row with the same start time holds
\* the requested handle, which is reported as its sole member.
C40_StoredMembersJoin == []C40_State /\ [][C40_Step]_vars

\* The session of the record without members was first seen through that
\* record, its standings call resolved, and it is returned with the
\* requested handle as its member and without rank or solved.
C40_Witness ==
  /\ Returned
  /\ Len(gyms) = 1
  /\ top[1].members = << >>
  /\ Len(StandingsCalls) = 1
  /\ StandingsCalls[1].ok
  /\ gyms[1].members = << RequestedHandle >>
  /\ gyms[1].rank = Null
  /\ Len(history) >= 2

====
